---------------------------- MODULE Spec2Model ----------------------------
(***************************************************************************)
(* A model of gpio-cdev-rs: the userspace binding to the Linux GPIO        *)
(* character device.  Three crates are modelled:                           *)
(*   gpio_cdev_async (features v1 / v2, mutually exclusive at build time)  *)
(*   lib_uapi        (the v2 helpers: LineRequestBuilder::new, get_line,   *)
(*                    LineHandle::get_bites / set_bites)                   *)
(*   the root crate  (its ioctl wrappers only; it has no other code)       *)
(* The kernel is the environment: its ioctl and read results are chosen    *)
(* nondeterministically within what the uAPI documentation in src/ states. *)
(*                                                                         *)
(* Specifications: Spec (one request from builder to handle and the calls  *)
(* on the handle), SpecBuilder (chains of builder calls, OffsetRequest),   *)
(* SpecIter (LineValueIter), SpecPair (two threads with a handle each),    *)
(* SpecChip (line-info watches and the event stream), SpecStr (32-byte     *)
(* strings).                                                               *)
(*                                                                         *)
(* 64-bit words (masks, value bitmaps) are sets of bit indices in 0..63,   *)
(* since the word does not fit the model checker's integers.  Arrays of    *)
(* the wire records are functions on 0..N-1; Vec and slices are sequences  *)
(* (1-based), so bit / array index i belongs to sequence position i + 1.   *)
(***************************************************************************)
EXTENDS Integers, Sequences, FiniteSets, TLC

VARIABLES
    \* ---- bounded strings (CString<32>) ----
    sphase,     \* "new" | "encoded" | "decoded"
    label,      \* the text handed to set_consumer / LineRequestBuilder::new
    strbuf,     \* the 32-byte buffer
    encoder,    \* who filled the buffer: "set_consumer" | "uapi_new" | "kernel"
    decoded,    \* what consumer() / name() returned
    decoder,    \* which accessor decoded
    \* ---- builder, request, handle ----
    api,        \* "v1" | "v2" (gpio_cdev_async features) | "uapi" (lib_uapi v2)
    phase,      \* "builder" | "set" | "built" | "live" | "failed" | "dropped"
                \* | "panicked"; "iter" while a LineValueIter is observed
    input,      \* the configurations handed to set_offsets / new
    request,    \* the wire record GpioV2LineRequest / GpioHandleRequest
    handle,     \* the LineHandle, or None
    last,       \* the last call: its arguments, the record submitted, its result
    submitted,  \* how many times the built request was passed to a request call
    \* ---- kernel side of the request ----
    fds,        \* open file descriptors of the process
    closed,     \* descriptors close() was called on, in order
    opened,     \* descriptors the line-request ioctl returned, in order
    lines,      \* value of each line of the kernel's reservation, by request index
    \* ---- chip: line-info watch and the changed-event stream ----
    watched,    \* offsets the kernel watches for this chip fd
    call,       \* the last watch / unwatch call and its result
    reads,      \* result of every read(2) on the chip fd, in order
    stream,     \* what every LineInfoChangeIter::next returned, in order
    \* ---- two threads, each with its own handle ----
    threads,    \* per thread: its handle, its calls, how many it made, results
    kernel      \* line values by request fd, and the ioctls in arrival order

strVars  == <<sphase, label, strbuf, encoder, decoded, decoder>>
reqVars  == <<api, phase, input, request, handle, last, submitted,
              fds, closed, opened, lines>>
chipVars == <<watched, call, reads, stream>>
pairVars == <<threads, kernel>>
vars     == <<sphase, label, strbuf, encoder, decoded, decoder,
              api, phase, input, request, handle, last, submitted,
              fds, closed, opened, lines,
              watched, call, reads, stream, threads, kernel>>

\* Option and Result values
None == [tag |-> "None"]
Some(v) == [tag |-> "Some", value |-> v]
Ok(v) == [tag |-> "Ok", value |-> v]
\* Error::Ioctl { kind, source }: the kind tag is kept, the errno is not
Err(kind) == [tag |-> "Err", kind |-> kind]

Min(a, b) == IF a <= b THEN a ELSE b

Range(s) == {s[i] : i \in 1..Len(s)}

-----------------------------------------------------------------------------
(***************************************************************************)
(* Program constants.                                                      *)
(***************************************************************************)
GPIO_MAX_NAME_SIZE == 32
GPIO_V2_LINES_MAX == 64
GPIO_V2_LINE_NUM_ATTRS_MAX == 10
GPIOHANDLES_MAX == 64

-----------------------------------------------------------------------------
(***************************************************************************)
(* Bounded strings.  Bytes are numbers.  The texts of the model are made   *)
(* of 'a' (0x61), NUL (a Rust str may hold U+0000) and the two-byte        *)
(* character U+00E9 (0xC3 0xA9); a kernel-filled buffer may also hold a    *)
(* lone continuation byte, which is not UTF-8.                             *)
(***************************************************************************)
Byte == [nul |-> 0, a |-> 97, lead2 |-> 195, cont |-> 169]
NUL == Byte.nul
ByteA == Byte.a
Lead2 == Byte.lead2
Cont == Byte.cont
\* U+FFFD REPLACEMENT CHARACTER as UTF-8
Replacement == <<239, 191, 189>>

\* Longest text handed to an encoder, in bytes.
MaxLabelLen == 34

RepeatA(n) == [i \in 1..n |-> ByteA]

SpecialBytes(kind) ==
    CASE kind = "plain" -> <<>>
      [] kind = "nul"   -> <<NUL>>
      [] kind = "wide"  -> <<Lead2, Cont>>
      [] kind = "bad"   -> <<Cont>>

\* pre times 'a', one special character, post times 'a'
Text(pre, kind, post) == RepeatA(pre) \o SpecialBytes(kind) \o RepeatA(post)

\* every &str of the alphabet with at most one special character
Labels ==
    {Text(pre, kind, post) :
        pre \in 0..MaxLabelLen, kind \in {"plain", "nul", "wide"}, post \in 0..MaxLabelLen}

StrLabels == {t \in Labels : Len(t) <= MaxLabelLen}

\* names the kernel copies out: any bytes, cut to 31 and NUL-terminated
KernelNames ==
    {Text(pre, kind, post) :
        pre \in 0..MaxLabelLen, kind \in {"plain", "wide", "bad"}, post \in 0..2}

\* impl From<T: AsRef<str>> for CString<N>, faulty variant: one byte too few is copied
CString_from_short(value) ==
    LET len == Min(Len(value), GPIO_MAX_NAME_SIZE)
    IN  [i \in 1..GPIO_MAX_NAME_SIZE |-> IF i < len THEN value[i] ELSE NUL]

\* impl From<T: AsRef<str>> for CString<N>: len = value.len().min(N);
\* buf = [0; N]; buf[..len].copy_from_slice(&value[..len])
CString_from(value) ==
    LET len == Min(Len(value), GPIO_MAX_NAME_SIZE)
    IN  [i \in 1..GPIO_MAX_NAME_SIZE |-> IF i <= len THEN value[i] ELSE NUL]

\* lib_uapi LineRequestBuilder::new: consumer_len = len.min(GPIO_MAX_NAME_SIZE),
\* copied into the zeroed record
uapi_consumer(value) ==
    LET consumer_len == Min(Len(value), GPIO_MAX_NAME_SIZE)
    IN  [i \in 1..GPIO_MAX_NAME_SIZE |-> IF i <= consumer_len THEN value[i] ELSE NUL]

\* the kernel's copy of a name into a 32-byte field: at most 31 bytes and a NUL
kernel_name(bytes) ==
    LET len == Min(Len(bytes), GPIO_MAX_NAME_SIZE - 1)
    IN  [i \in 1..GPIO_MAX_NAME_SIZE |-> IF i <= len THEN bytes[i] ELSE NUL]

\* position of the first NUL of a byte sequence, 0 when it has none
FirstNul(bytes) ==
    IF \E i \in 1..Len(bytes) : bytes[i] = NUL
    THEN CHOOSE i \in 1..Len(bytes) :
            bytes[i] = NUL /\ \A j \in 1..(i - 1) : bytes[j] # NUL
    ELSE 0

\* CStr::from_bytes_until_nul: Ok(bytes before the first NUL), Err without a NUL
from_bytes_until_nul(bytes) ==
    LET p == FirstNul(bytes)
    IN  IF p = 0 THEN [ok |-> FALSE, bytes |-> <<>>]
        ELSE [ok |-> TRUE, bytes |-> SubSeq(bytes, 1, p - 1)]

\* Result<&CStr, _>::unwrap_or_default(): the empty CStr on Err
unwrap_or_default(r) == IF r.ok THEN r.bytes ELSE <<>>

IsCont(b) == b >= 128 /\ b <= 191
IsLead2(b) == b >= 194 /\ b <= 223

\* CStr::to_string_lossy, byte i of the input: a continuation byte that
\* follows a lead byte belongs to that lead's character; an ASCII byte and a
\* lead byte with its continuation are kept; every other byte starts no valid
\* sequence and becomes U+FFFD
lossy_piece(bytes, i) ==
    IF i > 1 /\ IsCont(bytes[i]) /\ IsLead2(bytes[i - 1]) THEN <<>>
    ELSE IF bytes[i] < 128 THEN <<bytes[i]>>
    ELSE IF IsLead2(bytes[i]) /\ i < Len(bytes) /\ IsCont(bytes[i + 1])
         THEN <<bytes[i], bytes[i + 1]>>
    ELSE Replacement

\* the pieces of bytes i..j, in order
RECURSIVE lossy_pieces(_, _, _)
lossy_pieces(bytes, i, j) ==
    IF i > j THEN <<>>
    ELSE IF i = j THEN lossy_piece(bytes, i)
    ELSE lossy_pieces(bytes, i, (i + j) \div 2) \o
         lossy_pieces(bytes, ((i + j) \div 2) + 1, j)

\* CStr::to_string_lossy
utf8_lossy(bytes) == lossy_pieces(bytes, 1, Len(bytes))

\* CString::to_string_lossy (gpio_cdev_async), LineRequest::consumer (lib_uapi)
to_string_lossy(buf) == utf8_lossy(unwrap_or_default(from_bytes_until_nul(buf)))

\* lib_uapi ChipInfo::name / label: the &CStr itself, no conversion
chipinfo_name(buf) == unwrap_or_default(from_bytes_until_nul(buf))

-----------------------------------------------------------------------------
(***************************************************************************)
(* 64-bit words as sets of bit indices.                                    *)
(***************************************************************************)
WordBits == 64

\* 1 << index on c_ulong (Linux LP64).  index < 64 wherever the shift amount
\* is an index into a list of at most 64 lines; a larger amount overflows:
\* a panic with overflow checks, the amount taken modulo 64 without.
Shl1(index) == {index % WordBits}

\* a Vec or slice read out of the first n entries of a fixed array
SeqOf(array, n) == [i \in 1..n |-> array[i - 1]]

\* <[T]>::contains
contains(slice, x) == \E i \in 1..Len(slice) : slice[i] = x

-----------------------------------------------------------------------------
(***************************************************************************)
(* Offset <-> index translation (gpio_cdev_async/src/line.rs).             *)
(***************************************************************************)
\* Iterator::position, faulty variant: the index of the last such element
position_last(slice, target) ==
    LET found == {i \in 1..Len(slice) : slice[i] = target}
    IN  IF found = {} THEN None
        ELSE Some((CHOOSE i \in found : \A j \in found : i >= j) - 1)

\* Iterator::position: the index of the first element satisfying the test
position(slice, target) ==
    LET found == {i \in 1..Len(slice) : slice[i] = target}
    IN  IF found = {} THEN None
        ELSE Some((CHOOSE i \in found : \A j \in found : i <= j) - 1)

\* fn index_of_offset: offsets.iter().position(|&o| o == target)
index_of_offset(offsets, target) == position(offsets, target)

\* fn offsets_to_mask, faulty variant: the bit is the offset, not its index (as
\* lib_uapi's helper of the same name shifts)
offsets_to_mask_by_offset(offsets, target_offsets) ==
    UNION {Shl1(offsets[i]) : i \in {j \in 1..Len(offsets) :
                                        contains(target_offsets, offsets[j])}}

\* fn offsets_to_mask: for (index, &offset) in offsets.iter().enumerate()
\* { if target_offsets.contains(&offset) { mask |= 1 << index } }
offsets_to_mask(offsets, target_offsets) ==
    UNION {Shl1(index) : index \in {i \in 0..(Len(offsets) - 1) :
                                        contains(target_offsets, offsets[i + 1])}}

\* LineHandle::get_values (v2), faulty variant: the loop starts at index 1
get_values_mask_from_1(len) == UNION {Shl1(index) : index \in 1..(len - 1)}

\* LineHandle::get_values (v2): for index in 0..self.offsets.len()
\* { mask |= 1 << index }
get_values_mask(len) == UNION {Shl1(index) : index \in 0..(len - 1)}

-----------------------------------------------------------------------------
(***************************************************************************)
(* The wire records.                                                       *)
(***************************************************************************)
LineIdx == 0..(GPIO_V2_LINES_MAX - 1)
AttrIdx == 0..(GPIO_V2_LINE_NUM_ATTRS_MAX - 1)

\* GpioV2LineAttrId
AttrId == [Flags |-> 1, OutputValues |-> 2, Debounce |-> 3]

\* GpioV2LineConfigAttribute, zeroed
ZeroConfigAttribute == [attr |-> [id |-> 0, u |-> {}], mask |-> {}]

\* mem::zeroed() GpioV2LineRequest (gpio_cdev_async v2, lib_uapi)
ZeroV2Request ==
    [offsets |-> [i \in LineIdx |-> 0],
     consumer |-> [i \in 1..GPIO_MAX_NAME_SIZE |-> NUL],
     config |-> [flags |-> {}, num_attrs |-> 0,
                 attrs |-> [i \in AttrIdx |-> ZeroConfigAttribute]],
     num_lines |-> 0, event_buffer_size |-> 0, fd |-> 0]

\* mem::zeroed() GpioHandleRequest (gpio_cdev_async v1)
ZeroV1Request ==
    [lineoffsets |-> [i \in 0..(GPIOHANDLES_MAX - 1) |-> 0],
     flags |-> {},
     default_values |-> [i \in 0..(GPIOHANDLES_MAX - 1) |-> 0],
     consumer_label |-> [i \in 1..GPIO_MAX_NAME_SIZE |-> NUL],
     lines |-> 0, fd |-> 0]

\* LineRequestBuilder::new: unsafe { std::mem::zeroed() }
NewBuilder(a) == IF a = "v1" THEN ZeroV1Request ELSE ZeroV2Request

\* LineRequest::num_lines
num_lines(a, req) == IF a = "v1" THEN req.lines ELSE req.num_lines

\* LineRequest::offsets: inner.offsets.get(..num_lines).unwrap_or_default()
offsets(a, req) ==
    LET n == num_lines(a, req)
        array == IF a = "v1" THEN req.lineoffsets ELSE req.offsets
    IN  IF n <= GPIO_V2_LINES_MAX THEN SeqOf(array, n) ELSE <<>>

\* OffsetAttribute::into_line_attribute(self, index), faulty variant: a set
\* output value is bit 0, whatever the index
into_line_attribute_bit0(attr, index) ==
    CASE attr.kind = "Value" ->
            [id |-> AttrId.OutputValues,
             u |-> IF attr.v = 0 THEN {} ELSE {0}]
      [] attr.kind = "Flags" -> [id |-> AttrId.Flags, u |-> attr.v]
      [] attr.kind = "DebouncePeriodUs" -> [id |-> AttrId.Debounce, u |-> attr.v]

\* OffsetAttribute::into_line_attribute(self, index)
into_line_attribute(attr, index) ==
    CASE attr.kind = "Value" ->
            [id |-> AttrId.OutputValues,
             u |-> IF attr.v = 0 THEN {} ELSE Shl1(index)]
      [] attr.kind = "Flags" -> [id |-> AttrId.Flags, u |-> attr.v]
      [] attr.kind = "DebouncePeriodUs" -> [id |-> AttrId.Debounce, u |-> attr.v]

\* set_offsets, faulty variant: the configurations are not limited by take
take_unlimited(configs) == configs

\* set_offsets: configs.into_iter().map(Into::into).take(offsets.len())
take_lines(configs) == SubSeq(configs, 1, Min(Len(configs), GPIO_V2_LINES_MAX))

\* the attribute slots filled before the i-th taken configuration is
\* reached (attrs_num at that point of the outer loop, were it never left)
slots_before(taken, i) ==
    Cardinality(UNION {{<<j, k>> : k \in 1..Len(taken[j].line_attr)} : j \in 1..(i - 1)})

\* the configuration at which the outer loop of v2 set_offsets ends: the
\* first one whose attributes make attrs_num reach the number of slots
\* (break 'outer), or the last one taken
last_config(taken) ==
    LET filling == {i \in 1..Len(taken) :
                        slots_before(taken, i + 1) >= GPIO_V2_LINE_NUM_ATTRS_MAX}
    IN  IF filling = {} THEN Len(taken)
        ELSE CHOOSE i \in filling : \A j \in filling : i <= j

\* LineRequestBuilder::set_offsets, #[cfg(feature = "v2")].  The outer loop
\* writes each taken configuration's offset at lines_num and its attributes
\* at attrs_num (mask = 1 << lines_num), and is left (break 'outer, after
\* lines_num += 1) by the first configuration whose attribute makes attrs_num
\* reach the number of slots; final is that configuration, or the last one.
set_offsets_v2(req, configs) ==
    LET taken == take_lines(configs)
        final == last_config(taken)
        lines_num == final
        attrs_num == Min(slots_before(taken, final + 1), GPIO_V2_LINE_NUM_ATTRS_MAX)
        owner(slot) == CHOOSE jk \in UNION {{<<j, k>> : k \in 1..Len(taken[j].line_attr)} :
                                            j \in 1..final} :
                            slots_before(taken, jk[1]) + jk[2] - 1 = slot
    IN  [req EXCEPT
            !.offsets = [i \in LineIdx |-> IF i < lines_num THEN taken[i + 1].offset
                                           ELSE req.offsets[i]],
            !.config.attrs = [slot \in AttrIdx |->
                IF slot < attrs_num
                THEN [attr |-> into_line_attribute(
                                    taken[owner(slot)[1]].line_attr[owner(slot)[2]],
                                    owner(slot)[1] - 1),
                      mask |-> Shl1(owner(slot)[1] - 1)]
                ELSE req.config.attrs[slot]],
            !.num_lines = lines_num,
            !.config.num_attrs = attrs_num]

\* Option<u8>::unwrap_or_default
unwrap_or_zero(opt) == IF opt.tag = "Some" THEN opt.value ELSE 0

\* LineRequestBuilder::set_offsets, #[cfg(feature = "v1")]: the taken
\* configurations fill lineoffsets and default_values from index 0, and
\* lines is their number
set_offsets_v1(req, configs) ==
    LET taken == take_lines(configs)
        lines_num == Len(taken)
    IN  [req EXCEPT
            !.lineoffsets = [i \in 0..(GPIOHANDLES_MAX - 1) |->
                                IF i < lines_num THEN taken[i + 1].offset
                                ELSE req.lineoffsets[i]],
            !.default_values = [i \in 0..(GPIOHANDLES_MAX - 1) |->
                                IF i < lines_num
                                THEN unwrap_or_zero(taken[i + 1].default_value)
                                ELSE req.default_values[i]],
            !.lines = lines_num]

\* lib_uapi LineRequestBuilder::new(offsets, flags, consumer): the first
\* offsets.len().min(GPIO_V2_LINES_MAX) offsets are copied into the zeroed record
uapi_new(offs, flags, consumer) ==
    LET offsets_len == Min(Len(offs), GPIO_V2_LINES_MAX)
    IN  [ZeroV2Request EXCEPT
            !.config.flags = flags,
            !.offsets = [i \in LineIdx |-> IF i < offsets_len THEN offs[i + 1] ELSE 0],
            !.num_lines = offsets_len,
            !.consumer = uapi_consumer(consumer)]

\* the builder call of each API
set_offsets(a, req, configs) ==
    CASE a = "v1" -> set_offsets_v1(req, configs)
      [] a = "v2" -> set_offsets_v2(req, configs)
      [] a = "uapi" -> uapi_new([i \in 1..Len(configs) |-> configs[i].offset], {}, <<>>)

-----------------------------------------------------------------------------
(***************************************************************************)
(* Decoded values (gpio_cdev_async/src/line.rs).                           *)
(***************************************************************************)
\* LineValue::value_of_index, faulty variant: the mask is not consulted
value_of_index_unmasked(a, lv, index) ==
    IF a = "v1"
    THEN IF index < GPIOHANDLES_MAX THEN Some(lv.inner.values[index]) ELSE None
    ELSE IF index >= GPIO_V2_LINES_MAX THEN None
         ELSE IF Shl1(index) \cap lv.inner.bits = {} THEN Some(0) ELSE Some(1)

\* LineValue::value_of_index: v1 values.get(index).copied(); v2 None for
\* index >= GPIO_V2_LINES_MAX or a clear mask bit, else Some(0) / Some(1)
value_of_index(a, lv, index) ==
    IF a = "v1"
    THEN IF index < GPIOHANDLES_MAX THEN Some(lv.inner.values[index]) ELSE None
    ELSE IF index >= GPIO_V2_LINES_MAX THEN None
         ELSE IF Shl1(index) \cap lv.inner.mask # {}
              THEN (IF Shl1(index) \cap lv.inner.bits = {} THEN Some(0) ELSE Some(1))
              ELSE None

\* LineValue::value_of_offset: index_of_offset(&self.offsets, offset)?, then
\* value_of_index(index)
value_of_offset(a, lv, offset) ==
    LET index == index_of_offset(lv.offsets, offset)
    IN  IF index.tag = "None" THEN None ELSE value_of_index(a, lv, index.value)

\* LineValueIter::next: [item, index] after the call, from the iterator's
\* index: the loop stops at the first index that has a value, or at the end
LineValueIter_next(a, lv, index) ==
    LET valued == {i \in index..(Len(lv.offsets) - 1) :
                        value_of_index(a, lv, i).tag = "Some"}
    IN  IF valued = {} THEN [item |-> None, index |-> Len(lv.offsets)]
        ELSE LET first == CHOOSE i \in valued : \A j \in valued : i <= j
             IN  [item |-> Some([offset |-> lv.offsets[first + 1],
                                 value |-> value_of_index(a, lv, first).value]),
                  index |-> first + 1]

\* the iterator's index before its k-th call of a drain from index 0
index_before(a, lv, k) ==
    LET valued == {i \in 0..(Len(lv.offsets) - 1) :
                        value_of_index(a, lv, i).tag = "Some"}
    IN  IF k = 1 THEN 0
        ELSE 1 + CHOOSE i \in valued : Cardinality({j \in valued : j < i}) = k - 2

\* LineValue::values_iter() drained: the items next() returns until None
values_iter(a, lv) ==
    LET valued == {i \in 0..(Len(lv.offsets) - 1) :
                        value_of_index(a, lv, i).tag = "Some"}
    IN  [k \in 1..Cardinality(valued) |->
            LineValueIter_next(a, lv, index_before(a, lv, k)).item.value]

-----------------------------------------------------------------------------
(***************************************************************************)
(* Records submitted by set_values.                                        *)
(***************************************************************************)
\* the flags of set_values (v2): 1 << index for each item whose offset
\* index_of_offset finds in the handle's list
item_flags(offs, items, ks) ==
    UNION {LET index == index_of_offset(offs, items[k].offset)
           IN  IF index.tag = "Some" THEN Shl1(index.value) ELSE {} : k \in ks}

\* LineHandle::set_values (v2), faulty variant: the value of the last item
\* naming a line decides its bit
set_values_v2_last_wins(offs, items) ==
    [mask |-> item_flags(offs, items, 1..Len(items)),
     bits |-> item_flags(offs, items,
                {k \in 1..Len(items) :
                    /\ items[k].value # 0
                    /\ \A j \in (k + 1)..Len(items) : items[j].offset # items[k].offset})]

\* LineHandle::set_values (v2): the (mask, bits) handed to set_values_by_mask;
\* mask |= flag for every item found, bits |= flag when its value != 0
set_values_v2(offs, items) ==
    [mask |-> item_flags(offs, items, 1..Len(items)),
     bits |-> item_flags(offs, items, {k \in 1..Len(items) : items[k].value # 0})]

\* LineHandle::set_values (v1): the zeroed GpioHandleData with values[index] = 1
\* for every named offset index_of_offset finds in the handle's list
set_values_v1(offs, targets) ==
    LET found == {index_of_offset(offs, targets[k]) : k \in 1..Len(targets)}
    IN  [values |-> [i \in 0..(GPIOHANDLES_MAX - 1) |->
                        IF Some(i) \in found THEN 1 ELSE 0]]

-----------------------------------------------------------------------------
(***************************************************************************)
(* The kernel side of a line request, as the uAPI records document it.     *)
(***************************************************************************)
\* the chip's descriptor, opened by the caller
ChipFd == 3

\* the descriptor the kernel hands out for a request: the lowest free one
new_fd(open) == CHOOSE fd \in 0..(Cardinality(open) + ChipFd + 1) :
                    /\ fd > ChipFd /\ fd \notin open
                    /\ \A g \in (ChipFd + 1)..(fd - 1) : g \in open

\* GPIO_V2_GET_LINE_IOCTL / GPIO_GET_LINEHANDLE_IOCTL: a request needs at
\* least one line, and each line is reserved once (a repeated offset is EBUSY)
kernel_accepts(offs) ==
    Len(offs) >= 1 /\ Cardinality(Range(offs)) = Len(offs)

\* GPIO_V2_LINE_GET_VALUES_IOCTL: bits of the masked lines are filled in,
\* mask bits beyond the request are ignored; no line selected is EINVAL
kernel_get_values_v2(vals, data) ==
    LET sel == {i \in data.mask : i < Len(vals)}
    IN  [ok |-> sel # {},
         data |-> [mask |-> data.mask, bits |-> {i \in sel : vals[i + 1] = 1}],
         lines |-> vals]

\* GPIO_V2_LINE_SET_VALUES_IOCTL: the masked lines take their bit
kernel_set_values_v2(vals, data) ==
    LET sel == {i \in data.mask : i < Len(vals)}
    IN  [ok |-> sel # {},
         data |-> data,
         lines |-> [i \in 1..Len(vals) |->
                        IF (i - 1) \in sel
                        THEN (IF (i - 1) \in data.bits THEN 1 ELSE 0)
                        ELSE vals[i]]]

\* GPIOHANDLE_GET_LINE_VALUES_IOCTL: values[i] is the state of line i, 0 or 1
kernel_get_values_v1(vals, data) ==
    [ok |-> TRUE,
     data |-> [values |-> [i \in 0..(GPIOHANDLES_MAX - 1) |->
                            IF i < Len(vals) THEN vals[i + 1] ELSE data.values[i]]],
     lines |-> vals]

\* GPIOHANDLE_SET_LINE_VALUES_IOCTL: every line of the handle takes values[i]
kernel_set_values_v1(vals, data) ==
    [ok |-> TRUE,
     data |-> data,
     lines |-> [i \in 1..Len(vals) |-> IF data.values[i - 1] # 0 THEN 1 ELSE 0]]

\* LineRequest::request, faulty variant: the fd field is wrapped whatever the ioctl
\* returned
LineRequest_request_unchecked(a, req, ok) ==
    Ok([offsets |-> offsets(a, req), req_fd |-> req.fd])

\* LineRequest::request, faulty variant: the handle takes the whole offset
\* array instead of offsets()
LineRequest_request_whole_array(a, req, ok) ==
    IF ok THEN Ok([offsets |-> SeqOf(IF a = "v1" THEN req.lineoffsets ELSE req.offsets,
                                     GPIO_V2_LINES_MAX),
                   req_fd |-> req.fd])
    ELSE Err("GetLine")

\* LineRequest::request (gpio_cdev_async): ioctl(chip, &mut data.inner)?;
\* Ok(LineHandle { offsets: data.offsets().into(), req_fd: from_raw_fd(fd) })
LineRequest_request(a, req, ok) ==
    IF ok THEN Ok([offsets |-> offsets(a, req), req_fd |-> req.fd])
    ELSE Err("GetLine")

\* lib_uapi helper::offsets_to_mask: for &n in offsets { res |= 1 << n }
uapi_offsets_to_mask(offs) == UNION {Shl1(offs[k]) : k \in 1..Len(offs)}

\* lib_uapi get_line: ioctl(fd, &mut request.inner)?; Ok(LineHandle { fd:
\* from_raw_fd(request.fd()), mask: offsets_to_mask(request.offsets()) })
uapi_get_line(req, ok) ==
    IF ok THEN Ok([fd |-> req.fd, req_fd |-> req.fd,
                   mask |-> uapi_offsets_to_mask(offsets("uapi", req))])
    ELSE Err("GetLine")

\* the request call of each API
get_line(a, req, ok) ==
    IF a = "uapi" THEN uapi_get_line(req, ok) ELSE LineRequest_request(a, req, ok)

-----------------------------------------------------------------------------
(***************************************************************************)
(* Inputs of the request specification.                                    *)
(***************************************************************************)
SmallLen == 3
ExtraLen == 1

Apis == {"v1", "v2", "uapi"}

\* lengths of the configuration lists handed to set_offsets: short ones and
\* ones around the capacity of the record
InputLens == (0..SmallLen) \cup (GPIO_V2_LINES_MAX..(GPIO_V2_LINES_MAX + ExtraLen))

\* the offset of the k-th configuration: "ex" is 3, 7, 2 followed by distinct
\* larger offsets, "dup" repeats offsets
OffsetAt(pattern, k) ==
    IF pattern = "dup" THEN k % SmallLen
    ELSE IF k <= Len(<<3, 7, 2>>) THEN <<3, 7, 2>>[k] ELSE k + 7

\* the attributes of the k-th configuration (v2) under each plan
LineAttrAt(plan, k) ==
    CASE plan = "none" -> <<>>
      [] plan = "one" ->
            IF k = 1 THEN <<[kind |-> "Value", v |-> 1],
                            [kind |-> "DebouncePeriodUs", v |-> {3}]>>
            ELSE <<>>
      [] plan = "ten" ->
            IF k <= GPIO_V2_LINE_NUM_ATTRS_MAX
            THEN <<[kind |-> "Value", v |-> k % 2]>> ELSE <<>>
      [] plan = "late" ->
            IF k + ExtraLen + SmallLen >= GPIO_V2_LINES_MAX
            THEN <<[kind |-> "Flags", v |-> {3}]>> ELSE <<>>
      [] plan = "many" ->
            <<[kind |-> "Value", v |-> k % 2], [kind |-> "Flags", v |-> {3}]>>
      [] plan = "burst" ->
            IF k = 1
            THEN [i \in 1..(GPIO_V2_LINE_NUM_ATTRS_MAX + 1) |->
                    [kind |-> "Value", v |-> i % 2]]
            ELSE <<>>

\* the default output byte of the k-th configuration (v1)
DefaultValueAt(plan, k) == IF plan = "none" THEN None ELSE Some(k % 2)

Plans(a) == CASE a = "v2" -> {"none", "one", "ten", "late"}
              [] a = "v1" -> {"none", "one"}
              [] a = "uapi" -> {"none"}

\* OffsetConfig
OffsetConfig(a, pattern, plan, k) ==
    [offset |-> OffsetAt(pattern, k),
     line_attr |-> IF a = "v2" THEN LineAttrAt(plan, k) ELSE <<>>,
     default_value |-> IF a = "v1" THEN DefaultValueAt(plan, k) ELSE None]

Configs(a) ==
    {[k \in 1..n |-> OffsetConfig(a, pattern, plan, k)] :
        n \in InputLens, pattern \in {"ex", "dup"}, plan \in Plans(a)}

\* the offsets named by a configuration list, in order
InputOffsets(configs) == [k \in 1..Len(configs) |-> configs[k].offset]

\* the states the kernel reports for n requested lines
InitialLines(n) == {[i \in 1..n |-> 0], [i \in 1..n |-> i % 2]}

\* an offset no line of the list has
Foreign(offs) == 1 + Len(offs) + SmallLen + GPIO_V2_LINES_MAX

\* target lists for a handle with offsets offs: empty, one member, one
\* foreign offset, a mixture with repetition and in another order, the list
Targets(offs) ==
    {<<>>, <<Foreign(offs)>>, offs} \cup
    (IF offs = <<>> THEN {}
     ELSE {<<offs[1]>>,
           <<offs[Len(offs)], Foreign(offs), offs[1], offs[Len(offs)]>>})

\* LineValueItem lists (v2) over the target lists
Items(offs) ==
    {[k \in 1..Len(t) |-> [offset |-> t[k], value |-> (k + flip) % 2]] :
        t \in Targets(offs), flip \in {0, 1}}

\* masks handed to get_values_by_mask
Masks(offs) == {{}, {0}, {Len(offs) % WordBits}, 0..(WordBits - 1)}

-----------------------------------------------------------------------------
(***************************************************************************)
(* Values of the variables a specification does not use.                   *)
(***************************************************************************)
StrIdle ==
    /\ sphase = "idle" /\ label = <<>> /\ strbuf = <<>>
    /\ encoder = "none" /\ decoded = None /\ decoder = "none"

ReqIdle ==
    /\ api = "none" /\ phase = "idle" /\ input = <<>> /\ request = None
    /\ handle = None /\ last = None /\ submitted = 0
    /\ fds = {} /\ closed = <<>> /\ opened = <<>> /\ lines = <<>>

ChipIdle == watched = {} /\ call = None /\ reads = <<>> /\ stream = <<>>

PairIdle == threads = <<>> /\ kernel = [lines |-> <<>>, calls |-> <<>>]

-----------------------------------------------------------------------------
(***************************************************************************)
(* SpecStr: a text is encoded into a 32-byte buffer and read back.         *)
(***************************************************************************)
StrInit ==
    /\ sphase = "new" /\ label = <<>>
    /\ strbuf = [i \in 1..GPIO_MAX_NAME_SIZE |-> NUL]      \* mem::zeroed()
    /\ encoder = "none" /\ decoded = None /\ decoder = "none"
    /\ ReqIdle /\ ChipIdle /\ PairIdle

\* LineRequestBuilder::set_consumer (gpio_cdev_async): consumer.into()
SetConsumer(l) ==
    /\ sphase = "new"
    /\ label' = l /\ strbuf' = CString_from(l)
    /\ encoder' = "set_consumer" /\ sphase' = "encoded"
    /\ UNCHANGED <<decoded, decoder, reqVars, chipVars, pairVars>>

\* LineRequestBuilder::new (lib_uapi)
UapiNewConsumer(l) ==
    /\ sphase = "new"
    /\ label' = l /\ strbuf' = uapi_consumer(l)
    /\ encoder' = "uapi_new" /\ sphase' = "encoded"
    /\ UNCHANGED <<decoded, decoder, reqVars, chipVars, pairVars>>

\* get_chipinfo / get_lineinfo: the kernel fills name, label, consumer
KernelFill(l) ==
    /\ sphase = "new"
    /\ label' = l /\ strbuf' = kernel_name(l)
    /\ encoder' = "kernel" /\ sphase' = "encoded"
    /\ UNCHANGED <<decoded, decoder, reqVars, chipVars, pairVars>>

\* LineRequest::consumer, LineInfo::name / consumer, ChipInfo::name / label
\* of gpio_cdev_async; LineRequest::consumer, LineInfo::name of lib_uapi
Consumer ==
    /\ sphase = "encoded"
    /\ decoded' = Some(to_string_lossy(strbuf))
    /\ decoder' = "to_string_lossy" /\ sphase' = "decoded"
    /\ UNCHANGED <<label, strbuf, encoder, reqVars, chipVars, pairVars>>

\* ChipInfo::name / label of lib_uapi
ChipInfoName ==
    /\ sphase = "encoded" /\ encoder = "kernel"
    /\ decoded' = Some(chipinfo_name(strbuf))
    /\ decoder' = "chipinfo_name" /\ sphase' = "decoded"
    /\ UNCHANGED <<label, strbuf, encoder, reqVars, chipVars, pairVars>>

StrNext ==
    \/ \E l \in StrLabels : SetConsumer(l)
    \/ \E l \in StrLabels : UapiNewConsumer(l)
    \/ \E l \in KernelNames : KernelFill(l)
    \/ Consumer
    \/ ChipInfoName

SpecStr == StrInit /\ [][StrNext]_vars

-----------------------------------------------------------------------------
(***************************************************************************)
(* Claims about bounded strings.                                           *)
(***************************************************************************)
ByProgram == encoder \in {"set_consumer", "uapi_new"}

HasNul(bytes) == \E i \in 1..Len(bytes) : bytes[i] = NUL

\* the bytes of a text before its first NUL; all of it when it has none
IsUpToFirstNul(out, text) ==
    \E k \in 0..Len(text) :
        /\ out = SubSeq(text, 1, k)
        /\ \A i \in 1..k : text[i] # NUL
        /\ k = Len(text) \/ text[k + 1] = NUL

\* C8 as stated: every consumer label of at most 31 bytes is read back
\* identical after set_consumer and consumer().
C8_RoundTripIdentical ==
    (sphase = "decoded" /\ ByProgram /\ Len(label) <= GPIO_MAX_NAME_SIZE - 1)
        => decoded = Some(label)

\* C8 amended: a consumer label of at most 31 bytes is read back up to its
\* first NUL byte, hence identical when it holds no NUL byte.
C8_RoundTripUpToNul ==
    (sphase = "decoded" /\ ByProgram /\ Len(label) <= GPIO_MAX_NAME_SIZE - 1)
        => /\ IsUpToFirstNul(decoded.value, label)
           /\ ~HasNul(label) => decoded = Some(label)

C8_Witness ==
    /\ sphase = "decoded" /\ encoder = "set_consumer"
    /\ Len(label) = GPIO_MAX_NAME_SIZE - 1 /\ ~HasNul(label)
    /\ Lead2 \in Range(label)
    /\ decoded = Some(label)

\* C9: a consumer label of 32 bytes or more leaves a terminating NUL in the
\* 32-byte buffer and is read back as a prefix of at most 31 bytes of itself,
\* the first 31 when these hold no NUL.
C9_TruncatedKeepsTerminator ==
    (sphase \in {"encoded", "decoded"} /\ ByProgram
            /\ Len(label) >= GPIO_MAX_NAME_SIZE)
        => /\ strbuf[GPIO_MAX_NAME_SIZE] = NUL
           /\ sphase = "decoded" =>
                IsUpToFirstNul(decoded.value, SubSeq(label, 1, GPIO_MAX_NAME_SIZE - 1))

\* C10: decoding returns the bytes before the first NUL, and the whole
\* buffer when the 32-byte buffer holds no NUL (lossily converted where the
\* accessor returns text).
C10_DecodeWholeWithoutNul ==
    sphase = "decoded" =>
        LET raw == IF HasNul(strbuf)
                   THEN SubSeq(strbuf, 1, FirstNul(strbuf) - 1)
                   ELSE strbuf
        IN  decoded = Some(IF decoder = "to_string_lossy" THEN utf8_lossy(raw) ELSE raw)

-----------------------------------------------------------------------------
(***************************************************************************)
(* Chip: line-info watch registration and the changed-event stream.        *)
(***************************************************************************)
\* Lines of the chip: offsets 0..ChipLines-1 exist.
ChipLines == 3
\* Calls to next() in one behaviour.
MaxPulls == 3

\* offsets a caller passes: every line of the chip and one that does not exist
CallOffsets == 0..ChipLines

\* size_of::<LineInfoChangedEvent>() (v2: 256 + 8 + 4 + 20)
T_LEN == 288

\* GPIO_GET_LINEINFO_UNWATCH_IOCTL in the kernel: unwatching a line that is
\* not watched is an error (EBUSY); a line that does not exist is EINVAL
kernel_unwatch(w, offset) ==
    IF offset \in w /\ offset < ChipLines
    THEN [ok |-> TRUE, watched |-> w \ {offset}]
    ELSE [ok |-> FALSE, watched |-> w]

\* GPIO_V2_GET_LINEINFO_WATCH_IOCTL / GPIO_GET_LINEINFO_WATCH_IOCTL in the
\* kernel: the line joins the watched lines; watching it twice is an error
kernel_watch(w, offset) ==
    IF offset \notin w /\ offset < ChipLines
    THEN [ok |-> TRUE, watched |-> w \cup {offset}]
    ELSE [ok |-> FALSE, watched |-> w]

\* wrap_ioctl!: the errno becomes Error::Ioctl { kind, source }
wrap_ioctl(ok, kind, value) == IF ok THEN Ok(value) ELSE Err(kind)

\* get_lineinfo_unwatch, faulty variant: the ioctl's result is dropped
get_lineinfo_unwatch_ignore(ok, offset) == Ok(offset)

\* Chip::get_lineinfo_unwatch (gpio_cdev_async), get_lineinfo_unwatch
\* (lib_uapi): gpio_get_lineinfo_unwatch_ioctl(fd, &mut offset)?; Ok(..)
get_lineinfo_unwatch(ok, offset) == wrap_ioctl(ok, "GetLineInfo", offset)

\* Chip::get_lineinfo_watch: ioctl(fd, &mut inner)?; Ok(LineInfo { inner })
get_lineinfo_watch(ok, offset) == wrap_ioctl(ok, "GetLineInfo", [offset |-> offset])

\* LineInfoChangedEvent::read: match libc::read(..) { -1 => Err(GetLineEvent),
\* n => Ok(n / T_LEN) }
read(n) == IF n = -1 THEN Err("GetLineEvent") ELSE Ok(n \div T_LEN)

\* LineInfoChangeIter::next, faulty variant: the iterator ends at the first error
LineInfoChangeIter_next_fused(n, event) ==
    LET r == read(n)
    IN  IF r.tag = "Ok" THEN Some(Ok(event)) ELSE None

\* LineInfoChangeIter::next: match read(chip, &mut buf) { Ok(_len) =>
\* Some(Ok(buf[0])), Err(e) => Some(Err(e)) }
LineInfoChangeIter_next(n, event) ==
    LET r == read(n)
    IN  IF r.tag = "Ok" THEN Some(Ok(event)) ELSE Some(r)

ChipInit ==
    /\ watched = {} /\ call = None /\ reads = <<>> /\ stream = <<>>
    /\ StrIdle /\ ReqIdle /\ PairIdle

Watch(offset) ==
    LET k == kernel_watch(watched, offset)
    IN  /\ watched' = k.watched
        /\ call' = [op |-> "watch", offset |-> offset, before |-> watched,
                    result |-> get_lineinfo_watch(k.ok, offset)]
        /\ UNCHANGED <<reads, stream, strVars, reqVars, pairVars>>

Unwatch(offset) ==
    LET k == kernel_unwatch(watched, offset)
    IN  /\ watched' = k.watched
        /\ call' = [op |-> "unwatch", offset |-> offset, before |-> watched,
                    result |-> get_lineinfo_unwatch(k.ok, offset)]
        /\ UNCHANGED <<reads, stream, strVars, reqVars, pairVars>>

\* next() with a read that delivers one record about a watched line
PullEvent(offset) ==
    /\ Len(stream) < MaxPulls
    /\ offset \in watched
    /\ reads' = Append(reads, T_LEN)
    /\ stream' = Append(stream, LineInfoChangeIter_next(T_LEN, [offset |-> offset]))
    /\ UNCHANGED <<watched, call, strVars, reqVars, pairVars>>

\* next() with a read that fails (EAGAIN, EINTR, ...): the buffer stays zeroed
PullError ==
    /\ Len(stream) < MaxPulls
    /\ reads' = Append(reads, -1)
    /\ stream' = Append(stream, LineInfoChangeIter_next(-1, [offset |-> 0]))
    /\ UNCHANGED <<watched, call, strVars, reqVars, pairVars>>

ChipNext ==
    \/ \E o \in CallOffsets : Watch(o)
    \/ \E o \in CallOffsets : Unwatch(o)
    \/ \E o \in CallOffsets : PullEvent(o)
    \/ PullError

SpecChip == ChipInit /\ [][ChipNext]_vars

-----------------------------------------------------------------------------
(***************************************************************************)
(* Claims about the chip.                                                  *)
(***************************************************************************)
\* C6: the changed-event stream never ends: every next() returns Some; a
\* read that fails yields exactly one Err item, a read that delivers a record
\* yields one Ok item, and every next() performs a read of its own.
C6_StreamNeverEnds ==
    /\ Len(stream) = Len(reads)
    /\ \A i \in 1..Len(stream) :
        /\ stream[i] # None
        /\ stream[i].tag = "Some"
        /\ reads[i] = -1 <=> stream[i].value.tag = "Err"
        /\ reads[i] # -1 <=> stream[i].value.tag = "Ok"

\* an Err item in the middle of the stream, Ok items before and after it
C6_Witness ==
    /\ Len(stream) = 3
    /\ stream[1].value.tag = "Ok"
    /\ stream[2].value = Err("GetLineEvent")
    /\ stream[3].value.tag = "Ok"

\* C7: get_lineinfo_unwatch of an offset that is not watched returns Err and
\* leaves the watched lines as they were.
C7_UnwatchUnwatchedFails ==
    (call # None /\ call.op = "unwatch" /\ call.offset \notin call.before)
        => call.result.tag = "Err" /\ watched = call.before

\* unwatching twice: the second call finds the line no longer watched,
\* while another line still is
C7_Witness ==
    /\ call # None /\ call.op = "unwatch"
    /\ call.offset \notin call.before /\ call.offset < ChipLines
    /\ call.before # {}
    /\ call.result = Err("GetLineInfo")

-----------------------------------------------------------------------------
(***************************************************************************)
(* Spec: a request is built, submitted, and its handle is used and dropped.*)
(* request is the wire record, handle the value request() / get_line       *)
(* returned, lines the kernel's state of the requested lines, fds the open *)
(* descriptors of the process, closed the descriptors it has closed, last  *)
(* the latest call: its argument, the record it submitted, its result and  *)
(* the lines and descriptors before it.                                    *)
(***************************************************************************)
Init ==
    /\ api \in Apis /\ phase = "builder" /\ input = <<>>
    /\ request = NewBuilder(api)
    /\ handle = None /\ last = [op |-> "new"] /\ submitted = 0
    /\ fds = {ChipFd} /\ closed = <<>> /\ opened = <<>> /\ lines = <<>>
    /\ StrIdle /\ ChipIdle /\ PairIdle

\* LineRequestBuilder::set_offsets / lib_uapi LineRequestBuilder::new
SetOffsets(configs) ==
    /\ phase = "builder"
    /\ input' = configs
    /\ request' = set_offsets(api, request, configs)
    /\ phase' = "set"
    /\ last' = [op |-> "set_offsets"]
    /\ UNCHANGED <<api, handle, submitted, fds, closed, opened, lines>>
    /\ UNCHANGED <<strVars, chipVars, pairVars>>

\* LineRequestBuilder::build: Ok(self.inner), nothing is checked
Build ==
    /\ phase = "set"
    /\ phase' = "built"
    /\ last' = [op |-> "build"]
    /\ UNCHANGED <<api, input, request, handle, submitted, fds, closed, opened, lines>>
    /\ UNCHANGED <<strVars, chipVars, pairVars>>

\* what the caller holds after request() / get_line returned r
Returned(r) == IF r.tag = "Ok" THEN Some(r.value) ELSE None

\* whether the caller still has the request after a request call:
\* gpio_cdev_async takes it by value (request(self, chip), get_line(&self,
\* request: LineRequest)); lib_uapi borrows it (get_line(fd, request: &mut
\* LineRequest)), so the caller can pass it again
request_retained(a) == a = "uapi"

\* how many request calls a caller makes with one request
MaxSubmits == 2

\* a request call can be made: the request was built and not yet passed, or
\* the caller still has it and holds no handle
CanSubmit ==
    \/ phase = "built"
    \/ /\ request_retained(api) /\ phase \in {"failed", "dropped"}
       /\ submitted < MaxSubmits

\* LineRequest::request / get_line, the ioctl succeeding: the kernel has
\* reserved the lines, opened a descriptor and stored it in the fd field
RequestOk(vals) ==
    /\ CanSubmit
    /\ kernel_accepts(offsets(api, request))
    /\ Len(vals) = num_lines(api, request)
    /\ LET fd == new_fd(fds)
           filled == [request EXCEPT !.fd = fd]
           r == get_line(api, filled, TRUE)
       IN  /\ request' = filled
           /\ handle' = Returned(r)
           /\ fds' = fds \cup {fd}
           /\ opened' = Append(opened, fd)
           /\ last' = [op |-> "request", ioctl_ok |-> TRUE, result |-> r,
                       fds |-> fds, closed |-> closed]
    /\ lines' = vals
    /\ phase' = "live"
    /\ submitted' = submitted + 1
    /\ UNCHANGED <<api, input, closed>>
    /\ UNCHANGED <<strVars, chipVars, pairVars>>

\* lib_uapi get_line, the ioctl succeeding and an offset of the request being
\* 64 or more, in a build with overflow checks: 1 << n panics in
\* offsets_to_mask after the descriptor was wrapped, and unwinding drops the
\* OwnedFd, which closes it.  (Without overflow checks the shift amount wraps
\* and the call returns: RequestOk.)
RequestPanic ==
    /\ CanSubmit /\ api = "uapi"
    /\ kernel_accepts(offsets(api, request))
    /\ \E o \in Range(offsets(api, request)) : o >= WordBits
    /\ LET fd == new_fd(fds)
       IN  /\ request' = [request EXCEPT !.fd = fd]
           /\ opened' = Append(opened, fd)
           /\ closed' = Append(closed, fd)
           /\ last' = [op |-> "request", ioctl_ok |-> TRUE,
                       result |-> [tag |-> "Panic"], fds |-> fds,
                       closed |-> closed]
    /\ phase' = "panicked"
    /\ submitted' = submitted + 1
    /\ UNCHANGED <<api, input, handle, fds, lines>>
    /\ UNCHANGED <<strVars, chipVars, pairVars>>

\* LineRequest::request / get_line, the ioctl failing: the kernel leaves the
\* record as it was submitted and opens nothing
RequestErr ==
    /\ CanSubmit
    /\ LET r == get_line(api, request, FALSE)
       IN  /\ handle' = Returned(r)
           /\ last' = [op |-> "request", ioctl_ok |-> FALSE, result |-> r,
                       fds |-> fds, closed |-> closed]
           /\ phase' = IF r.tag = "Ok" THEN "live" ELSE "failed"
    /\ submitted' = submitted + 1
    /\ UNCHANGED <<api, input, request, fds, closed, opened, lines>>
    /\ UNCHANGED <<strVars, chipVars, pairVars>>

\* the ioctl wrappers wrap_ioctl! defines, by the feature that compiles them
\* (the root crate spells five of the v2 names with the prefix gepio_)
CommonWrappers == {"gpio_get_chipinfo_ioctl", "gpio_get_lineinfo_unwatch_ioctl"}
V1Wrappers ==
    {"gpio_get_lineinfo_ioctl", "gpio_get_linehandle_ioctl",
     "gpio_get_lineevent_ioctl", "gpiohandle_get_line_values_ioctl",
     "gpiohandle_set_line_values_ioctl", "gpiohandle_set_config_ioctl",
     "gpio_get_lineinfo_watch_ioctl"}
V2Wrappers ==
    {"gpio_v2_get_lineinfo_ioctl", "gpio_v2_get_lineinfo_watch_ioctl",
     "gpio_v2_get_line_ioctl", "gpio_v2_line_set_config_ioctl",
     "gpio_v2_line_get_values_ioctl", "gpio_v2_line_set_values_ioctl"}

\* the crates that define the wrappers: gpio_cdev_async, lib_uapi and the
\* crate at the root of the repository
Crates == {"gpio_cdev_async", "lib_uapi", "root"}

\* the IoctlKind each wrap_ioctl! invocation of gpio_cdev_async and lib_uapi
\* passes (the two crates pass the same)
ioctl_kind_uapi(wrapper) ==
    CASE wrapper = "gpio_get_chipinfo_ioctl" -> "GetChipInfo"
      [] wrapper \in {"gpio_get_lineinfo_unwatch_ioctl", "gpio_get_lineinfo_ioctl",
                      "gpio_get_lineinfo_watch_ioctl", "gpio_v2_get_lineinfo_ioctl",
                      "gpio_v2_get_lineinfo_watch_ioctl"} -> "GetLineInfo"
      [] wrapper \in {"gpio_get_linehandle_ioctl", "gpio_v2_get_line_ioctl"} -> "GetLine"
      [] wrapper = "gpio_get_lineevent_ioctl" -> "GetLineEvent"
      [] wrapper \in {"gpiohandle_get_line_values_ioctl",
                      "gpio_v2_line_get_values_ioctl"} -> "GetValues"
      [] wrapper \in {"gpiohandle_set_line_values_ioctl",
                      "gpio_v2_line_set_values_ioctl"} -> "SetValues"
      [] wrapper \in {"gpiohandle_set_config_ioctl",
                      "gpio_v2_line_set_config_ioctl"} -> "SetLineConfig"

\* the IoctlKind each wrap_ioctl! invocation of the root crate passes
ioctl_kind_root(wrapper) ==
    CASE wrapper = "gpio_get_chipinfo_ioctl" -> "ChipInfo"
      [] wrapper \in {"gpio_get_lineinfo_unwatch_ioctl", "gpio_get_lineinfo_ioctl",
                      "gpio_get_lineinfo_watch_ioctl", "gpio_v2_get_lineinfo_ioctl",
                      "gpio_v2_get_lineinfo_watch_ioctl"} -> "LineInfo"
      [] wrapper = "gpio_v2_get_line_ioctl" -> "LineHandle"
      [] wrapper = "gpio_v2_line_set_config_ioctl" -> "SetLine"
      [] wrapper = "gpio_v2_line_get_values_ioctl" -> "GetLine"
      [] wrapper = "gpio_v2_line_set_values_ioctl" -> "SetLine"
      [] wrapper = "gpio_get_linehandle_ioctl" -> "GetLine"
      [] wrapper = "gpio_get_lineevent_ioctl" -> "LineEvent"
      [] wrapper = "gpiohandle_get_line_values_ioctl" -> "GetLine"
      [] wrapper = "gpiohandle_set_line_values_ioctl" -> "SetLine"
      [] wrapper = "gpiohandle_set_config_ioctl" -> "LineHandle"

ioctl_kind(crate, wrapper) ==
    IF crate = "root" THEN ioctl_kind_root(wrapper) ELSE ioctl_kind_uapi(wrapper)

\* the crates and wrappers a build with API a has
CratesOf(a) == IF a = "uapi" THEN {"lib_uapi"} ELSE {"gpio_cdev_async", "root"}
WrappersOf(a) ==
    CommonWrappers \cup
    (CASE a = "v1" -> V1Wrappers
       [] a = "v2" -> V2Wrappers
       [] a = "uapi" -> V1Wrappers \cup V2Wrappers)

\* a wrapper generated by wrap_ioctl! is called:
\* $name::$name(fd, data).map_err(|e| ioctl_error($ioctl_error_ty, e))
IoctlCall(crate, wrapper, ok) ==
    /\ phase = "builder"
    /\ crate \in CratesOf(api) /\ wrapper \in WrappersOf(api)
    /\ last' = [op |-> "ioctl", crate |-> crate, wrapper |-> wrapper, ok |-> ok,
                result |-> wrap_ioctl(ok, ioctl_kind(crate, wrapper), 0)]
    /\ UNCHANGED <<api, phase, input, request, handle, submitted,
                   fds, closed, opened, lines>>
    /\ UNCHANGED <<strVars, chipVars, pairVars>>

\* LineRequest::index_of_offset: self.offsets().iter().position(|&o| o ==
\* offset); prev is the call made just before, if it was one of these
LineRequest_index_of_offset(offset) ==
    /\ phase = "built" /\ api \in {"v1", "v2"}
    /\ last' = [op |-> "index_of_offset", arg |-> offset,
                result |-> index_of_offset(offsets(api, request), offset),
                prev |-> IF last.op = "index_of_offset"
                         THEN Some([arg |-> last.arg, result |-> last.result])
                         ELSE None]
    /\ UNCHANGED <<api, phase, input, request, handle, submitted,
                   fds, closed, opened, lines>>
    /\ UNCHANGED <<strVars, chipVars, pairVars>>

\* impl From<u32> for GpioV2LineAttrId, faulty variant: an unknown id falls
\* to Flags
GpioV2LineAttrId_from_flags(value, debug_assertions) ==
    IF debug_assertions /\ value \notin 1..3 THEN "panic"
    ELSE CASE value = 2 -> "OutputValues"
           [] value = 3 -> "Debounce"
           [] OTHER -> "Flags"

\* impl From<u32> for GpioV2LineAttrId (gpio_cdev_async and lib_uapi):
\* debug_assert!(matches!(value, 1..=3));
\* match value { 1 => Flags, 2 => OutputValues, _ => Debounce }
GpioV2LineAttrId_from(value, debug_assertions) ==
    IF debug_assertions /\ value \notin 1..3 THEN "panic"
    ELSE CASE value = 1 -> "Flags"
           [] value = 2 -> "OutputValues"
           [] OTHER -> "Debounce"

\* union Union { flags: c_ulong, values: c_ulong, debounce_period_us: u32 }:
\* the u32 arm is the low half of the word (little endian)
debounce_period_us(u) == {b \in u : 2 * b < WordBits}

\* impl From<&GpioV2LineAttribute> for LineAttribute / lib_uapi
\* LineAttribute::get_value: the arm read is chosen by the decoded id
LineAttribute_from(attr, debug_assertions) ==
    LET id == GpioV2LineAttrId_from(attr.id, debug_assertions)
    IN  CASE id = "panic" -> [tag |-> "Panic"]
          [] id = "Flags" -> [tag |-> "Flags", v |-> attr.u]
          [] id = "OutputValues" -> [tag |-> "Values", v |-> attr.u]
          [] id = "Debounce" ->
                [tag |-> "DebouncePeriodUs", v |-> debounce_period_us(attr.u)]

\* the GpioV2LineAttribute records a kernel-filled LineInfo, or a request,
\* may hand to the decoder: every id around the valid ones
RawAttributes ==
    {[id |-> id, u |-> u] : id \in 0..(AttrId.Debounce + 1),
                            u \in {{}, {0, 3}, {1, WordBits - 1}}}

\* an attribute is decoded, in a build with or without debug assertions
DecodeAttribute(attr, debug_assertions) ==
    /\ phase = "builder" /\ api \in {"v2", "uapi"}
    /\ last' = [op |-> "decode", arg |-> attr, debug_assertions |-> debug_assertions,
                result |-> LineAttribute_from(attr, debug_assertions)]
    /\ UNCHANGED <<api, phase, input, request, handle, submitted,
                   fds, closed, opened, lines>>
    /\ UNCHANGED <<strVars, chipVars, pairVars>>

\* the ioctl calls of a LineHandle method, faulty variant: a v2 call whose
\* mask is empty returns without asking the kernel
handle_ioctls_nonempty(a, op, h, data) ==
    IF a = "v2" /\ data.mask = {} THEN <<>>
    ELSE <<[fd |-> h.req_fd,
            wrapper |-> IF op = "set_values" THEN "gpio_v2_line_set_values_ioctl"
                        ELSE "gpio_v2_line_get_values_ioctl",
            data |-> data]>>

\* the ioctl calls of a LineHandle method, in order: get_values (v1) and
\* set_values (v1) call their wrapper once on req_fd; get_values and
\* get_values_by_offsets (v2) end in get_values_by_mask and set_values (v2)
\* in set_values_by_mask, each of which calls its wrapper once; `?` returns
\* the error of that call
handle_ioctls(a, op, h, data) ==
    <<[fd |-> h.req_fd,
       wrapper |-> IF op = "set_values"
                   THEN (IF a = "v1" THEN "gpiohandle_set_line_values_ioctl"
                         ELSE "gpio_v2_line_set_values_ioctl")
                   ELSE (IF a = "v1" THEN "gpiohandle_get_line_values_ioctl"
                         ELSE "gpio_v2_line_get_values_ioctl"),
       data |-> data]>>

\* the record of a call on the handle
HandleCall(op, arg, data, result) ==
    [op |-> op, arg |-> arg, data |-> data, result |-> result, lines |-> lines,
     ioctls |-> handle_ioctls(api, op, handle.value, data)]

\* LineHandle::get_values
GetValues(ok) ==
    /\ phase = "live" /\ api \in {"v1", "v2"}
    /\ LET offs == handle.value.offsets
           data == IF api = "v1"
                   THEN [values |-> [i \in 0..(GPIOHANDLES_MAX - 1) |-> 0]]
                   ELSE [mask |-> get_values_mask(Len(offs)), bits |-> {}]
           k == IF api = "v1" THEN kernel_get_values_v1(lines, data)
                ELSE kernel_get_values_v2(lines, data)
       IN  last' = HandleCall("get_values", <<>>, data,
                      IF ok /\ k.ok
                      THEN Ok([inner |-> k.data, offsets |-> offs])
                      ELSE Err("GetValues"))
    /\ UNCHANGED <<api, phase, input, request, handle, submitted,
                   fds, closed, opened, lines>>
    /\ UNCHANGED <<strVars, chipVars, pairVars>>

\* LineHandle::get_values_by_mask (v2)
GetValuesByMask(ok, mask) ==
    /\ phase = "live" /\ api = "v2"
    /\ LET offs == handle.value.offsets
           data == [mask |-> mask, bits |-> {}]
           k == kernel_get_values_v2(lines, data)
       IN  last' = HandleCall("get_values_by_mask", mask, data,
                      IF ok /\ k.ok
                      THEN Ok([inner |-> k.data, offsets |-> offs])
                      ELSE Err("GetValues"))
    /\ UNCHANGED <<api, phase, input, request, handle, submitted,
                   fds, closed, opened, lines>>
    /\ UNCHANGED <<strVars, chipVars, pairVars>>

\* LineHandle::get_values_by_offsets (v2)
GetValuesByOffsets(ok, targets) ==
    /\ phase = "live" /\ api = "v2"
    /\ LET offs == handle.value.offsets
           data == [mask |-> offsets_to_mask(offs, targets), bits |-> {}]
           k == kernel_get_values_v2(lines, data)
       IN  last' = HandleCall("get_values_by_offsets", targets, data,
                      IF ok /\ k.ok
                      THEN Ok([inner |-> k.data, offsets |-> offs])
                      ELSE Err("GetValues"))
    /\ UNCHANGED <<api, phase, input, request, handle, submitted,
                   fds, closed, opened, lines>>
    /\ UNCHANGED <<strVars, chipVars, pairVars>>

\* LineHandle::set_values: items are LineValueItem (v2) or offsets (v1)
SetValues(ok, items) ==
    /\ phase = "live" /\ api \in {"v1", "v2"}
    /\ LET offs == handle.value.offsets
           data == IF api = "v1" THEN set_values_v1(offs, InputOffsets(items))
                   ELSE set_values_v2(offs, items)
           k == IF api = "v1" THEN kernel_set_values_v1(lines, data)
                ELSE kernel_set_values_v2(lines, data)
       IN  /\ last' = [items |-> items] @@
                       HandleCall("set_values", InputOffsets(items), data,
                        IF ok /\ k.ok THEN Ok(<<>>) ELSE Err("SetValues"))
           /\ lines' = IF ok /\ k.ok THEN k.lines ELSE lines
    /\ UNCHANGED <<api, phase, input, request, handle, submitted,
                   fds, closed, opened>>
    /\ UNCHANGED <<strVars, chipVars, pairVars>>

\* drop(LineHandle): OwnedFd closes the descriptor it wraps
Drop ==
    /\ phase = "live"
    /\ closed' = Append(closed, handle.value.req_fd)
    /\ fds' = fds \ {handle.value.req_fd}
    /\ phase' = "dropped"
    /\ last' = [op |-> "drop"]
    /\ UNCHANGED <<api, input, request, handle, submitted, opened, lines>>
    /\ UNCHANGED <<strVars, chipVars, pairVars>>

\* lib_uapi LineHandle::set_bites(&self, bites): the record handed to the
\* ioctl is zeroed and gets data.mask = self.mask; bites is not used
set_bites(h, bites) == [mask |-> h.mask, bits |-> {}]

\* lib_uapi LineHandle::set_bites_with_submask(&self, mask):
\* data.mask = self.mask & mask, bits stay zero
set_bites_with_submask(h, mask) == [mask |-> h.mask \cap mask, bits |-> {}]

\* lib_uapi LineHandle::get_bites: data.mask = self.mask, Ok(data.bits)
LineHandle_get_bites(ok) ==
    /\ phase = "live" /\ api = "uapi"
    /\ LET data == [mask |-> handle.value.mask, bits |-> {}]
           k == kernel_get_values_v2(lines, data)
       IN  last' = [op |-> "get_bites", arg |-> <<>>, data |-> data,
                    result |-> IF ok /\ k.ok THEN Ok(k.data.bits) ELSE Err("GetValues"),
                    lines |-> lines,
                    after |-> IF last.op = "set_bites" /\ last.result.tag = "Ok"
                              THEN Some(last.arg) ELSE None]
    /\ UNCHANGED <<api, phase, input, request, handle, submitted,
                   fds, closed, opened, lines>>
    /\ UNCHANGED <<strVars, chipVars, pairVars>>

\* lib_uapi LineHandle::set_bites(bites)
LineHandle_set_bites(ok, bites) ==
    /\ phase = "live" /\ api = "uapi"
    /\ LET data == set_bites(handle.value, bites)
           k == kernel_set_values_v2(lines, data)
       IN  /\ last' = [op |-> "set_bites", arg |-> bites, data |-> data,
                       result |-> IF ok /\ k.ok THEN Ok(<<>>) ELSE Err("SetValues"),
                       lines |-> lines]
           /\ lines' = IF ok /\ k.ok THEN k.lines ELSE lines
    /\ UNCHANGED <<api, phase, input, request, handle, submitted,
                   fds, closed, opened>>
    /\ UNCHANGED <<strVars, chipVars, pairVars>>

\* lib_uapi LineHandle::set_bites_with_submask(mask)
LineHandle_set_bites_with_submask(ok, mask) ==
    /\ phase = "live" /\ api = "uapi"
    /\ LET data == set_bites_with_submask(handle.value, mask)
           k == kernel_set_values_v2(lines, data)
       IN  /\ last' = [op |-> "set_bites_with_submask", arg |-> mask, data |-> data,
                       result |-> IF ok /\ k.ok THEN Ok(<<>>) ELSE Err("SetValues"),
                       lines |-> lines]
           /\ lines' = IF ok /\ k.ok THEN k.lines ELSE lines
    /\ UNCHANGED <<api, phase, input, request, handle, submitted,
                   fds, closed, opened>>
    /\ UNCHANGED <<strVars, chipVars, pairVars>>

\* the words handed to set_bites and set_bites_with_submask
Bites == IF phase = "live" /\ api = "uapi"
         THEN {{}, {0, 2}, 0..(WordBits - 1)} ELSE {}

\* what a caller can pass at this point: configuration lists to a builder,
\* target lists, items and masks to a live handle
BuilderInputs == IF phase = "builder" THEN Configs(api) ELSE {}
HandleOffsets == IF phase = "live" /\ api # "uapi" THEN handle.value.offsets ELSE <<>>
HandleTargets == IF phase = "live" /\ api = "v2" THEN Targets(HandleOffsets) ELSE {}
HandleItems == IF phase = "live" /\ api # "uapi" THEN Items(HandleOffsets) ELSE {}
HandleMasks == IF phase = "live" /\ api = "v2" THEN Masks(HandleOffsets) ELSE {}
\* offsets a caller looks up in a built request: its first ones and a foreign one
LookupOffsets ==
    IF phase = "built" /\ api # "uapi"
    THEN LET L == offsets(api, request)
         IN  {L[i] : i \in 1..Min(Len(L), SmallLen)} \cup {Foreign(L)}
    ELSE {}
KernelLines == IF CanSubmit THEN InitialLines(num_lines(api, request)) ELSE {}

Next ==
    \/ \E configs \in BuilderInputs : SetOffsets(configs)
    \/ Build
    \/ \E vals \in KernelLines : RequestOk(vals)
    \/ RequestPanic
    \/ RequestErr
    \/ \E ok \in BOOLEAN : GetValues(ok)
    \/ \E ok \in BOOLEAN, mask \in HandleMasks : GetValuesByMask(ok, mask)
    \/ \E ok \in BOOLEAN, targets \in HandleTargets : GetValuesByOffsets(ok, targets)
    \/ \E ok \in BOOLEAN, items \in HandleItems : SetValues(ok, items)
    \/ \E ok \in BOOLEAN : LineHandle_get_bites(ok)
    \/ \E ok \in BOOLEAN, bites \in Bites : LineHandle_set_bites(ok, bites)
    \/ \E ok \in BOOLEAN, mask \in Bites : LineHandle_set_bites_with_submask(ok, mask)
    \/ Drop
    \/ \E offset \in LookupOffsets : LineRequest_index_of_offset(offset)
    \/ \E attr \in RawAttributes, debug_assertions \in BOOLEAN :
            DecodeAttribute(attr, debug_assertions)
    \/ \E crate \in Crates, wrapper \in CommonWrappers \cup V1Wrappers \cup V2Wrappers,
          ok \in BOOLEAN : IoctlCall(crate, wrapper, ok)

Spec == Init /\ [][Next]_vars

-----------------------------------------------------------------------------
(***************************************************************************)
(* Claims about offsets, masks, values and the request call (Spec).        *)
(***************************************************************************)
\* C1: for a handle's offset list L (at most 64 offsets) and a target list T,
\* the mask get_values_by_offsets computes with offsets_to_mask(L, T) has
\* exactly |{o in T : o in L}| bits set, the bits are the indices in L of the
\* offsets that occur in T, and a target that is not in L sets no bit.
C1_MaskBitsAtIndices ==
    last.op = "get_values_by_offsets" =>
        LET L == handle.value.offsets
            T == last.arg
            mask == last.data.mask
        IN  /\ Len(L) <= GPIO_V2_LINES_MAX
            /\ Cardinality(mask) = Cardinality({o \in Range(T) : o \in Range(L)})
            /\ mask = {i \in 0..(Len(L) - 1) : L[i + 1] \in Range(T)}

\* C1 witness: a 64-line handle was asked for its last line, a foreign
\* offset and its first line (named twice); bits 0 and 63 are set
C1_Witness ==
    /\ last.op = "get_values_by_offsets"
    /\ Len(handle.value.offsets) = GPIO_V2_LINES_MAX
    /\ Cardinality(Range(last.arg)) < Len(last.arg)
    /\ Foreign(handle.value.offsets) \in Range(last.arg)
    /\ last.data.mask = {0, GPIO_V2_LINES_MAX - 1}

\* C2: after a successful submission of a request with offset list L, the pairs
\* get_values().values_iter() yields are one per element of L, in the order
\* of L, and every value is 0 or 1.
C2_ValuesInRequestOrder ==
    (last.op = "get_values" /\ last.result.tag = "Ok") =>
        LET L == offsets(api, request)
            pairs == values_iter(api, last.result.value)
        IN  /\ Len(pairs) = Len(L)
            /\ \A i \in 1..Len(L) :
                    pairs[i].offset = L[i] /\ pairs[i].value \in {0, 1}

\* C2 witness: the v2 request for offsets 3, 7, 2 was submitted and get_values
\* yielded (3, 1), (7, 0), (2, 1)
C2_Witness ==
    /\ api = "v2" /\ last.op = "get_values" /\ last.result.tag = "Ok"
    /\ InputOffsets(input) = <<3, 7, 2>>
    /\ values_iter(api, last.result.value) =
            <<[offset |-> 3, value |-> 1], [offset |-> 7, value |-> 0],
              [offset |-> 2, value |-> 1]>>

\* C3 (as claimed): a set_values call naming only offsets that are not in the
\* handle's offset list leaves every line of the handle as it was, and sets
\* no mask bit (v2) and no value slot (v1) in the submitted record.
C3_ForeignSetLeavesLines ==
    (/\ last.op = "set_values" /\ last.arg # <<>>
     /\ \A k \in 1..Len(last.arg) : ~contains(handle.value.offsets, last.arg[k]))
    => /\ lines = last.lines
       /\ IF api = "v1"
          THEN \A i \in 0..(GPIOHANDLES_MAX - 1) : last.data.values[i] = 0
          ELSE last.data.mask = {}

\* C4 (as claimed): when more than 64 configurations were given, the request
\* and the handle obtained from it hold exactly the first 64 offsets in
\* input order.
C4_FirstSixtyFourRetained ==
    (Len(input) > GPIO_V2_LINES_MAX /\ phase # "builder") =>
        LET first == SubSeq(InputOffsets(input), 1, GPIO_V2_LINES_MAX)
        IN  /\ offsets(api, request) = first
            /\ (phase = "live" /\ api # "uapi") => handle.value.offsets = first

\* C5: when the line-request ioctl fails, the call returns Err, no handle
\* exists, the fd field of the record is neither wrapped nor closed, and the
\* open descriptors are those open before the call.
C5_FailedRequestLeavesNothing ==
    (last.op = "request" /\ ~last.ioctl_ok) =>
        /\ last.result = Err("GetLine")
        /\ handle = None
        /\ fds = last.fds
        /\ closed = last.closed

\* C5 witness: a v2 request for three lines was submitted and the ioctl failed
C5_Witness ==
    /\ api = "v2" /\ phase = "failed" /\ last.op = "request" /\ ~last.ioctl_ok
    /\ num_lines(api, request) = SmallLen
    /\ fds = {ChipFd}

\* C11 (as claimed): every request the builder produced holds pairwise
\* distinct offsets in offsets()[0..num_lines], whatever list was passed to
\* set_offsets or LineRequestBuilder::new.
C11_OffsetsPairwiseDistinct ==
    phase # "builder" =>
        LET L == offsets(api, request)
        IN  Cardinality(Range(L)) = Len(L)

\* C12 (as claimed): a built request is passed to a line-request call at most
\* once, whether the call succeeded or failed.
C12_SubmittedAtMostOnce == submitted <= 1

\* how often x occurs in seq
Count(seq, x) == Cardinality({i \in 1..Len(seq) : seq[i] = x})

\* C13 (as claimed): every descriptor a successful line-request ioctl
\* returned is open exactly while one live handle owns it, is never closed
\* more often than it was returned, and is closed only by the drop of the
\* handle that owns it.
C13_FdOwnedClosedOnce ==
    /\ [](/\ \A f \in Range(opened) : Count(closed, f) <= Count(opened, f)
          /\ fds \ {ChipFd} =
                {f \in Range(opened) : Count(opened, f) > Count(closed, f)}
          /\ fds \ {ChipFd} =
                IF phase = "live" THEN {handle.value.req_fd} ELSE {})
    /\ [][closed' # closed =>
            /\ phase = "live" /\ phase' = "dropped"
            /\ closed' = Append(closed, handle.value.req_fd)]_vars

\* the operation each wrapper attempts
operation_of(wrapper) ==
    CASE wrapper = "gpio_get_chipinfo_ioctl" -> "chip-info"
      [] wrapper \in {"gpio_get_lineinfo_unwatch_ioctl", "gpio_get_lineinfo_ioctl",
                      "gpio_get_lineinfo_watch_ioctl", "gpio_v2_get_lineinfo_ioctl",
                      "gpio_v2_get_lineinfo_watch_ioctl"} -> "line-info"
      [] wrapper \in {"gpio_get_linehandle_ioctl", "gpio_v2_get_line_ioctl"} ->
            "line request"
      [] wrapper = "gpio_get_lineevent_ioctl" -> "event"
      [] wrapper \in {"gpiohandle_get_line_values_ioctl",
                      "gpio_v2_line_get_values_ioctl"} -> "get-values"
      [] wrapper \in {"gpiohandle_set_line_values_ioctl",
                      "gpio_v2_line_set_values_ioctl"} -> "set-values"
      [] wrapper \in {"gpiohandle_set_config_ioctl",
                      "gpio_v2_line_set_config_ioctl"} -> "set-config"

\* the kind tag of each operation
KindOf(operation) ==
    CASE operation = "chip-info" -> "GetChipInfo"
      [] operation = "line-info" -> "GetLineInfo"
      [] operation = "line request" -> "GetLine"
      [] operation = "set-config" -> "SetLineConfig"
      [] operation = "get-values" -> "GetValues"
      [] operation = "set-values" -> "SetValues"
      [] operation = "event" -> "GetLineEvent"

\* the root crate's IoctlKind names four of the tags without the Get prefix
\* or by the v1 name of the request (LineHandle)
SameKind(kind, tag) ==
    \/ kind = tag
    \/ <<kind, tag>> \in {<<"ChipInfo", "GetChipInfo">>, <<"LineInfo", "GetLineInfo">>,
                          <<"LineHandle", "GetLine">>, <<"LineEvent", "GetLineEvent">>}

\* C14 (as claimed): an operation whose kernel call failed returns Err with
\* the kind tag of the operation attempted, and an operation returns Ok only
\* when its kernel call succeeded.
C14_FailureCarriesOperationKind ==
    /\ last.op = "ioctl" =>
            IF last.ok THEN last.result.tag = "Ok"
            ELSE /\ last.result.tag = "Err"
                 /\ SameKind(last.result.kind, KindOf(operation_of(last.wrapper)))
    /\ (last.op = "request" /\ ~last.ioctl_ok) => last.result = Err("GetLine")
    /\ (last.op \in {"get_values", "get_values_by_mask", "get_values_by_offsets"}
        /\ last.result.tag = "Err") => last.result.kind = "GetValues"
    /\ (last.op = "set_values" /\ last.result.tag = "Err") =>
            last.result.kind = "SetValues"

\* C16: for v2, after get_values_by_offsets(T) succeeded on a handle with
\* offset list L, values_iter yields one pair for each offset of L that occurs
\* in T, in the order of L and with the line's value, and value_of_offset(o)
\* is the line's value for those offsets and None for every other offset
\* (not in T, or not in L).
C16_PairsForSelectedOffsets ==
    (last.op = "get_values_by_offsets" /\ last.result.tag = "Ok") =>
        LET L == handle.value.offsets
            T == last.arg
            lv == last.result.value
            sel == {i \in 1..Len(L) : L[i] \in Range(T)}
            pairs == values_iter(api, lv)
        IN  /\ Len(pairs) = Cardinality(sel)
            /\ \A i \in sel :
                    LET k == Cardinality({j \in sel : j <= i})
                    IN  pairs[k] = [offset |-> L[i], value |-> last.lines[i]]
            /\ \A o \in Range(L) \cup Range(T) :
                    value_of_offset(api, lv, o) =
                        IF o \in Range(L) /\ o \in Range(T)
                        THEN Some(last.lines[position(L, o).value + 1])
                        ELSE None

\* C16 witness: a handle with more than two lines was asked for its last
\* line, a foreign offset and its first line; two pairs were yielded, the
\* first line's before the last line's, and the second line has no value
C16_Witness ==
    /\ last.op = "get_values_by_offsets" /\ last.result.tag = "Ok"
    /\ Len(handle.value.offsets) > 2
    /\ Foreign(handle.value.offsets) \in Range(last.arg)
    /\ LET L == handle.value.offsets
           pairs == values_iter(api, last.result.value)
       IN  /\ Len(pairs) = 2
           /\ pairs[1].offset = L[1] /\ pairs[2].offset = L[Len(L)]
           /\ value_of_offset(api, last.result.value, L[2]) = None

\* C17: index_of_offset(L, o) is Some(i) exactly for the smallest index i
\* with L[i] = o, and None when o does not occur in L; a call repeated with
\* the same arguments returns the same result.
C17_FirstIndexOrNone ==
    last.op = "index_of_offset" =>
        LET L == offsets(api, request)
            o == last.arg
            r == last.result
        IN  /\ r = None <=> (\A i \in 1..Len(L) : L[i] # o)
            /\ r # None =>
                    /\ r.tag = "Some" /\ r.value \in 0..(Len(L) - 1)
                    /\ L[r.value + 1] = o
                    /\ \A j \in 1..r.value : L[j] # o
            /\ (last.prev # None /\ last.prev.value.arg = o) =>
                    last.prev.value.result = r

\* C17 witness: an offset that occurs more than once in the request, not at
\* index 0, was looked up twice in a row
C17_Witness ==
    /\ last.op = "index_of_offset"
    /\ last.result.tag = "Some" /\ last.result.value > 0
    /\ Count(offsets(api, request), last.arg) > 1
    /\ last.prev = Some([arg |-> last.arg, result |-> last.result])

\* C18: after v2 set_offsets, with the supplied attributes numbered in input
\* order (configuration by configuration, within the first 64), slots
\* 0..num_attrs-1 hold the first num_attrs of them without a gap; the mask
\* of a slot is exactly bit i, where i is the index at which the request's
\* own offset list holds the owning configuration's offset; an output-value
\* attribute has at most bit i in its values bitmap (bit i when the value is
\* not 0), flags and debounce periods are stored as given.
C18_AttributesPackedDensely ==
    (api = "v2" /\ phase # "builder") =>
        LET taken == SubSeq(input, 1, Min(Len(input), GPIO_V2_LINES_MAX))
            supplied == {kj \in (1..Len(taken)) \X (1..GPIO_V2_LINE_NUM_ATTRS_MAX) :
                            kj[2] <= Len(taken[kj[1]].line_attr)}
            before(kj) == {p \in supplied :
                            p[1] < kj[1] \/ (p[1] = kj[1] /\ p[2] < kj[2])}
            n == request.config.num_attrs
        IN  /\ n = Min(Cardinality(supplied), GPIO_V2_LINE_NUM_ATTRS_MAX)
            /\ \A kj \in supplied :
                Cardinality(before(kj)) < n =>
                    LET slot == request.config.attrs[Cardinality(before(kj))]
                        given == taken[kj[1]].line_attr[kj[2]]
                        i == kj[1] - 1
                    IN  /\ slot.mask = {i}
                        /\ i < request.num_lines
                        /\ request.offsets[i] = taken[kj[1]].offset
                        /\ CASE given.kind = "Value" ->
                                    /\ slot.attr.id = AttrId.OutputValues
                                    /\ slot.attr.u \subseteq {i}
                                    /\ slot.attr.u = {} <=> given.v = 0
                             [] given.kind = "Flags" ->
                                    slot.attr.id = AttrId.Flags /\ slot.attr.u = given.v
                             [] given.kind = "DebouncePeriodUs" ->
                                    slot.attr.id = AttrId.Debounce /\ slot.attr.u = given.v

\* C18 witness: ten configurations gave one output value each; slot 2 belongs
\* to the line at index 2, whose chip offset is not 2, and holds value 1 as
\* bit 2
C18_Witness ==
    /\ api = "v2" /\ phase = "set"
    /\ request.config.num_attrs = GPIO_V2_LINE_NUM_ATTRS_MAX
    /\ request.offsets[2] # 2
    /\ request.config.attrs[2] =
            [attr |-> [id |-> AttrId.OutputValues, u |-> {2}], mask |-> {2}]

\* C19 (as claimed): the mask of the handle lib_uapi's get_line returned has
\* bit i set iff i < num_lines, whatever the offsets of the request are.
C19_MaskAddressesByIndex ==
    (api = "uapi" /\ phase = "live") =>
        handle.value.mask = {i \in 0..(WordBits - 1) : i < num_lines(api, request)}

\* C20: decoding an attribute yields the arm its id selects: id 1 the flags
\* word, id 2 the values word, id 3 the 32-bit debounce period; an id outside
\* 1..3 panics in a build with debug assertions and is decoded as a debounce
\* period in a build without.
C20_DecodedArmFollowsId ==
    last.op = "decode" =>
        LET attr == last.arg
            low == {b \in attr.u : b < 32}
        IN  last.result =
                CASE attr.id = 1 -> [tag |-> "Flags", v |-> attr.u]
                  [] attr.id = 2 -> [tag |-> "Values", v |-> attr.u]
                  [] attr.id = 3 -> [tag |-> "DebouncePeriodUs", v |-> low]
                  [] OTHER -> IF last.debug_assertions THEN [tag |-> "Panic"]
                              ELSE [tag |-> "DebouncePeriodUs", v |-> low]

\* C20 witness: id 0 with bits 1 and 63 in the union was decoded without
\* debug assertions, as the debounce period 2
C20_Witness ==
    /\ last.op = "decode" /\ ~last.debug_assertions
    /\ last.arg = [id |-> 0, u |-> {1, WordBits - 1}]
    /\ last.result = [tag |-> "DebouncePeriodUs", v |-> {1}]

-----------------------------------------------------------------------------
(***************************************************************************)
(* SpecPair: two threads, each driving its own LineHandle.  Every call is  *)
(* one ioctl on the descriptor of the handle; the kernel serves the ioctls *)
(* one at a time, in the order they arrive.                                *)
(***************************************************************************)
\* calls each thread makes
PairCalls == 2

\* the two handles: different descriptors, disjoint lines
PairHandles ==
    <<[offsets |-> <<3, 7>>, req_fd |-> ChipFd + 1],
      [offsets |-> <<2, 8, 5>>, req_fd |-> ChipFd + 2]>>

\* the values of the lines of each handle when the threads start
PairLines == <<(<<1, 0>>), (<<0, 1, 1>>)>>

\* self.req_fd.as_raw_fd(), faulty variant: the descriptor is one all
\* handles share
as_raw_fd_shared(h) == ChipFd + 1

\* self.req_fd.as_raw_fd()
as_raw_fd(h) == h.req_fd

\* LineHandle::get_values on handle h whose descriptor's lines are vals: the
\* result (the pairs of values_iter, or the error) and the lines afterwards
LineHandle_get_values(a, h, ok, vals) ==
    LET data == IF a = "v1"
                THEN [values |-> [i \in 0..(GPIOHANDLES_MAX - 1) |-> 0]]
                ELSE [mask |-> get_values_mask(Len(h.offsets)), bits |-> {}]
        k == IF a = "v1" THEN kernel_get_values_v1(vals, data)
             ELSE kernel_get_values_v2(vals, data)
    IN  [result |-> IF ok /\ k.ok
                    THEN Ok(values_iter(a, [inner |-> k.data, offsets |-> h.offsets]))
                    ELSE Err("GetValues"),
         lines |-> vals]

\* LineHandle::set_values on handle h whose descriptor's lines are vals
LineHandle_set_values(a, h, items, ok, vals) ==
    LET data == IF a = "v1" THEN set_values_v1(h.offsets, InputOffsets(items))
                ELSE set_values_v2(h.offsets, items)
        k == IF a = "v1" THEN kernel_set_values_v1(vals, data)
             ELSE kernel_set_values_v2(vals, data)
    IN  [result |-> IF ok /\ k.ok THEN Ok(<<>>) ELSE Err("SetValues"),
         lines |-> IF ok /\ k.ok THEN k.lines ELSE vals]

LineHandle_call(a, h, c, vals) ==
    IF c.op = "get_values" THEN LineHandle_get_values(a, h, c.ok, vals)
    ELSE LineHandle_set_values(a, h, c.items, c.ok, vals)

\* the calls a thread with handle h may make: get_values; set_values naming
\* its first line (0), a line of the other handle (1) and its last line (1);
\* set_values of its first line, the ioctl failing
CallsOf(h, other) ==
    {[op |-> "get_values", ok |-> TRUE],
     [op |-> "set_values", ok |-> TRUE,
      items |-> <<[offset |-> h.offsets[1], value |-> 0],
                  [offset |-> other.offsets[1], value |-> 1],
                  [offset |-> h.offsets[Len(h.offsets)], value |-> 1]>>],
     [op |-> "set_values", ok |-> FALSE,
      items |-> <<[offset |-> h.offsets[1], value |-> 1]>>]}

Programs(h, other) == [1..PairCalls -> CallsOf(h, other)]

PairInit ==
    /\ api \in {"v1", "v2"} /\ phase = "idle" /\ input = <<>> /\ request = None
    /\ handle = None /\ last = None /\ submitted = 0
    /\ fds = {ChipFd, ChipFd + 1, ChipFd + 2}
    /\ closed = <<>> /\ opened = <<ChipFd + 1, ChipFd + 2>> /\ lines = <<>>
    /\ \E p1 \in Programs(PairHandles[1], PairHandles[2]),
          p2 \in Programs(PairHandles[2], PairHandles[1]) :
            threads = <<[handle |-> PairHandles[1], program |-> p1, pc |-> 0,
                         results |-> <<>>],
                        [handle |-> PairHandles[2], program |-> p2, pc |-> 0,
                         results |-> <<>>]>>
    /\ kernel = [lines |-> [fd \in {ChipFd + 1, ChipFd + 2} |-> PairLines[fd - ChipFd]],
                 calls |-> <<>>]
    /\ StrIdle /\ ChipIdle

\* thread t makes its next call: the ioctl acts on the lines of the
\* descriptor it is issued on
ThreadCall(t, op) ==
    /\ threads[t].pc < Len(threads[t].program)
    /\ LET me == threads[t]
           c == me.program[me.pc + 1]
           fd == as_raw_fd(me.handle)
           r == LineHandle_call(api, me.handle, c, kernel.lines[fd])
       IN  /\ c.op = op
           /\ threads' = [threads EXCEPT ![t] =
                            [me EXCEPT !.pc = me.pc + 1,
                                       !.results = Append(me.results, r.result)]]
           /\ kernel' = [lines |-> [kernel.lines EXCEPT ![fd] = r.lines],
                         calls |-> Append(kernel.calls, [thread |-> t, fd |-> fd])]
    /\ UNCHANGED <<strVars, reqVars, chipVars>>

ThreadGetValues(t) == ThreadCall(t, "get_values")
ThreadSetValues(t) == ThreadCall(t, "set_values")

PairNext ==
    \/ \E t \in DOMAIN threads : ThreadGetValues(t)
    \/ \E t \in DOMAIN threads : ThreadSetValues(t)

SpecPair == PairInit /\ [][PairNext]_vars

\* the results and the final lines of the calls made on handle h alone, from
\* lines vals
RECURSIVE Alone(_, _, _, _)
Alone(a, h, calls, vals) ==
    IF calls = <<>> THEN [results |-> <<>>, lines |-> vals]
    ELSE LET before == Alone(a, h, SubSeq(calls, 1, Len(calls) - 1), vals)
             r == LineHandle_call(a, h, calls[Len(calls)], before.lines)
         IN  [results |-> Append(before.results, r.result), lines |-> r.lines]

\* C15: in every interleaving of the calls of two threads that drive a handle
\* each, the results a thread has got and the values of the lines of its
\* handle are those of making its calls alone, and every ioctl was issued on
\* the descriptor of the calling thread's handle.
C15_InterleavingEqualsAlone ==
    /\ \A t \in DOMAIN threads :
            LET me == threads[t]
                solo == Alone(api, me.handle, SubSeq(me.program, 1, me.pc),
                              PairLines[t])
            IN  /\ me.results = solo.results
                /\ kernel.lines[me.handle.req_fd] = solo.lines
    /\ \A i \in 1..Len(kernel.calls) :
            kernel.calls[i].fd = threads[kernel.calls[i].thread].handle.req_fd

\* C15 witness: the threads alternated (1, 2, 1, 2); each set values, naming
\* also a line of the other handle, and then read its own lines back
C15_Witness ==
    /\ threads # <<>> /\ api = "v2"
    /\ [i \in 1..Len(kernel.calls) |-> kernel.calls[i].thread] = <<1, 2, 1, 2>>
    /\ \A t \in DOMAIN threads :
            /\ threads[t].program[1].op = "set_values" /\ threads[t].program[1].ok
            /\ threads[t].results[1] = Ok(<<>>)
    /\ threads[1].results[2] =
            Ok(<<[offset |-> 3, value |-> 0], [offset |-> 7, value |-> 1]>>)
    /\ threads[2].results[2] =
            Ok(<<[offset |-> 2, value |-> 0], [offset |-> 8, value |-> 1],
                 [offset |-> 5, value |-> 1]>>)

\* C21 (as claimed): in v2 set_offsets, running out of attribute slots drops
\* attributes only: the request's offset list is the first 64 supplied
\* offsets, in input order, however many attributes the configurations
\* carried.
C21_SlotExhaustionKeepsOffsets ==
    (api = "v2" /\ phase # "builder") =>
        offsets(api, request) =
            SubSeq(InputOffsets(input), 1, Min(Len(input), GPIO_V2_LINES_MAX))

-----------------------------------------------------------------------------
(***************************************************************************)
(* SpecBuilder: chains of builder calls (gpio_cdev_async/src/line.rs,      *)
(* lib_uapi/src/v2.rs).  The builder is request, phase stays "builder"     *)
(* until build, and last is the latest call: its argument, the record      *)
(* before it (prev) and the number of setter calls made so far (calls).    *)
(***************************************************************************)
\* LineRequestBuilder::set_consumer
set_consumer(a, req, value) ==
    IF a = "v1" THEN [req EXCEPT !.consumer_label = CString_from(value)]
    ELSE [req EXCEPT !.consumer = CString_from(value)]

\* LineRequestBuilder::set_flags, faulty variant: in v2 the whole line
\* configuration is replaced by one that has the flags only
set_flags_fresh_config(a, req, bits) ==
    IF a = "v1" THEN [req EXCEPT !.flags = bits]
    ELSE [req EXCEPT !.config = [flags |-> bits, num_attrs |-> 0,
                                 attrs |-> [i \in AttrIdx |-> ZeroConfigAttribute]]]

\* LineRequestBuilder::set_flags
set_flags(a, req, bits) ==
    IF a = "v1" THEN [req EXCEPT !.flags = bits]
    ELSE [req EXCEPT !.config.flags = bits]

\* LineRequestBuilder::set_event_buffer_size, #[cfg(feature = "v2")]
set_event_buffer_size(req, size) == [req EXCEPT !.event_buffer_size = size]

\* LineRequest::consumer: to_string_lossy of the consumer field
LineRequest_consumer(a, req) ==
    to_string_lossy(IF a = "v1" THEN req.consumer_label ELSE req.consumer)

\* LineRequest::flags
LineRequest_flags(a, req) == IF a = "v1" THEN req.flags ELSE req.config.flags

\* LineRequest::attrs: config.attrs.get(..num_attrs).unwrap_or_default()
LineRequest_attrs(req) ==
    IF req.config.num_attrs <= GPIO_V2_LINE_NUM_ATTRS_MAX
    THEN SeqOf(req.config.attrs, req.config.num_attrs) ELSE <<>>

\* LineRequest::default_values, #[cfg(feature = "v1")]
LineRequest_default_values(req) ==
    IF req.lines <= GPIOHANDLES_MAX THEN SeqOf(req.default_values, req.lines) ELSE <<>>

\* the array indices LineRequestBuilder::set_offsets uses: lines are the
\* values of lines_num at `offsets[lines_num as usize] = config.offset`
\* (lineoffsets and default_values in v1), slots the values of attrs_num at
\* `&mut config.attrs[attrs_num as usize]`; the inner loop is left as soon as
\* attrs_num has reached the number of slots
set_offsets_indices(a, configs) ==
    LET taken == take_lines(configs)
        final == IF a = "v2" THEN last_config(taken) ELSE Len(taken)
        reached == IF a = "v2"
                   THEN UNION {{slots_before(taken, j) + k - 1 :
                                    k \in 1..Len(taken[j].line_attr)} : j \in 1..final}
                   ELSE {}
        first == IF reached = {} THEN 0 ELSE CHOOSE s \in reached : \A t \in reached : s <= t
    IN  [lines |-> {i - 1 : i \in 1..final},
         slots |-> {s \in reached :
                        \A t \in first..(s - 1) : t + 1 < GPIO_V2_LINE_NUM_ATTRS_MAX}]

\* LineRequest::default_value_of_offset: index_of_offset(offset)?, then (v1)
\* default_values().get(index) or (v2) the first attribute whose mask has
\* bit index and that decodes as Values tells by its bit index
default_value_of_offset(a, req, offset) ==
    LET index == index_of_offset(offsets(a, req), offset)
    IN  IF index.tag = "None" THEN None
        ELSE IF a = "v1"
             THEN (IF index.value < Len(LineRequest_default_values(req))
                   THEN Some(LineRequest_default_values(req)[index.value + 1])
                   ELSE None)
             ELSE LET c_attrs == LineRequest_attrs(req)
                      telling == {k \in 1..Len(c_attrs) :
                                    /\ Shl1(index.value) \cap c_attrs[k].mask # {}
                                    /\ LineAttribute_from(c_attrs[k].attr, FALSE).tag
                                            = "Values"}
                  IN  IF telling = {} THEN None
                      ELSE LET k == CHOOSE i \in telling : \A j \in telling : i <= j
                           IN  IF Shl1(index.value) \cap c_attrs[k].attr.u # {}
                               THEN Some(1) ELSE Some(0)

\* the OffsetConfig OffsetRequest::new hands to set_offsets:
\* (offset, [OffsetAttribute::Value(default_value)]) in v2,
\* (offset, default_value) in v1
OffsetRequest_config(a, offset, default_value) ==
    [offset |-> offset,
     line_attr |-> IF a = "v2" THEN <<[kind |-> "Value", v |-> default_value]>>
                   ELSE <<>>,
     default_value |-> IF a = "v1" THEN Some(default_value) ELSE None]

\* OffsetRequest::new(offset, flags, default_value, consumer):
\* LineRequestBuilder::new().set_flags(flags).set_consumer(consumer)
\* .set_offsets([config]), then build().unwrap()
OffsetRequest_request(a, offset, bits, default_value, value) ==
    set_offsets(a, set_consumer(a, set_flags(a, NewBuilder(a), bits), value),
                <<OffsetRequest_config(a, offset, default_value)>>)

\* OffsetRequest::offset: self.line_request.offsets()[0]
OffsetRequest_offset(a, req) == offsets(a, req)[1]

\* OffsetRequest::default_value: self.line_request.default_value_of_offset(0)
OffsetRequest_default_value(a, req) == default_value_of_offset(a, req, 0)

\* how many setter calls a chain makes
MaxBuilderCalls == 3

\* the (length, plan) of the configuration lists handed to set_offsets
BuilderShapes(a) ==
    {<<0, "none">>, <<SmallLen - 1, "none">>, <<SmallLen, "one">>,
     <<GPIO_V2_LINES_MAX, "none">>, <<GPIO_V2_LINES_MAX + ExtraLen, "one">>} \cup
    (IF a = "v2"
     THEN {<<1, "burst">>, <<GPIO_V2_LINES_MAX, "ten">>,
           <<GPIO_V2_LINES_MAX + ExtraLen, "many">>}
     ELSE {})

BuilderConfigs(a) ==
    {[k \in 1..shape[1] |-> OffsetConfig(a, "ex", shape[2], k)] : shape \in BuilderShapes(a)}

\* consumer texts: short, and longer than the field
BuilderConsumers == {RepeatA(1), RepeatA(GPIO_MAX_NAME_SIZE + 1)}

\* flag words
BuilderFlags == {{0}, {2, 3}}

\* event buffer sizes
BuilderSizes == {16}

BuilderInit ==
    /\ api \in Apis /\ phase = "builder" /\ input = <<>>
    /\ request = NewBuilder(api)
    /\ handle = None /\ last = [op |-> "new", calls |-> 0] /\ submitted = 0
    /\ fds = {ChipFd} /\ closed = <<>> /\ opened = <<>> /\ lines = <<>>
    /\ StrIdle /\ ChipIdle /\ PairIdle

\* a further setter call can be made on the builder
CanSet(apis) == phase = "builder" /\ api \in apis /\ last.calls < MaxBuilderCalls

\* LineRequestBuilder::set_consumer(self, consumer) -> Self
LineRequestBuilder_set_consumer(value) ==
    /\ CanSet({"v1", "v2"})
    /\ request' = set_consumer(api, request, value)
    /\ last' = [op |-> "set_consumer", arg |-> value, prev |-> request,
                calls |-> last.calls + 1]
    /\ UNCHANGED <<api, phase, input, handle, submitted, fds, closed, opened, lines>>
    /\ UNCHANGED <<strVars, chipVars, pairVars>>

\* LineRequestBuilder::set_flags(self, flags) -> Self
LineRequestBuilder_set_flags(bits) ==
    /\ CanSet({"v1", "v2"})
    /\ request' = set_flags(api, request, bits)
    /\ last' = [op |-> "set_flags", arg |-> bits, prev |-> request,
                calls |-> last.calls + 1]
    /\ UNCHANGED <<api, phase, input, handle, submitted, fds, closed, opened, lines>>
    /\ UNCHANGED <<strVars, chipVars, pairVars>>

\* LineRequestBuilder::set_event_buffer_size(self, size) -> Self
LineRequestBuilder_set_event_buffer_size(size) ==
    /\ CanSet({"v2"})
    /\ request' = set_event_buffer_size(request, size)
    /\ last' = [op |-> "set_event_buffer_size", arg |-> size, prev |-> request,
                calls |-> last.calls + 1]
    /\ UNCHANGED <<api, phase, input, handle, submitted, fds, closed, opened, lines>>
    /\ UNCHANGED <<strVars, chipVars, pairVars>>

\* LineRequestBuilder::set_offsets(self, configs) -> Self
LineRequestBuilder_set_offsets(configs) ==
    /\ CanSet({"v1", "v2"})
    /\ input' = configs
    /\ request' = set_offsets(api, request, configs)
    /\ last' = [op |-> "set_offsets", arg |-> configs, prev |-> request,
                calls |-> last.calls + 1,
                indices |-> set_offsets_indices(api, configs)]
    /\ UNCHANGED <<api, phase, handle, submitted, fds, closed, opened, lines>>
    /\ UNCHANGED <<strVars, chipVars, pairVars>>

\* lib_uapi LineRequestBuilder::new(offsets, flags, consumer): the constructor
\* is the one call that configures the record
LineRequestBuilder_new(configs, bits, value) ==
    /\ CanSet({"uapi"}) /\ last.calls = 0
    /\ input' = configs
    /\ request' = uapi_new(InputOffsets(configs), bits, value)
    /\ last' = [op |-> "uapi_new", arg |-> configs, prev |-> request,
                calls |-> last.calls + 1,
                indices |-> set_offsets_indices(api, configs)]
    /\ UNCHANGED <<api, phase, handle, submitted, fds, closed, opened, lines>>
    /\ UNCHANGED <<strVars, chipVars, pairVars>>

\* OffsetRequest::new(offset, flags, default_value, consumer) -> Self
OffsetRequest_new(offset, bits, default_value, value) ==
    /\ phase = "builder" /\ api \in {"v1", "v2"} /\ last.op = "new"
    /\ request' = OffsetRequest_request(api, offset, bits, default_value, value)
    /\ input' = <<OffsetRequest_config(api, offset, default_value)>>
    /\ phase' = "built"
    /\ last' = [op |-> "OffsetRequest_new", prev |-> request, calls |-> 0,
                arg |-> [offset |-> offset, flags |-> bits,
                         default_value |-> default_value, consumer |-> value]]
    /\ UNCHANGED <<api, handle, submitted, fds, closed, opened, lines>>
    /\ UNCHANGED <<strVars, chipVars, pairVars>>

\* the offsets and default values OffsetRequest::new is called with
SingleOffsets == {0, SmallLen}
DefaultValues == {0, 1, 2}

\* LineRequestBuilder::build(self) -> Result<LineRequest>: Ok(self.inner)
LineRequestBuilder_build ==
    /\ phase = "builder"
    /\ api = "uapi" => last.calls > 0
    /\ phase' = "built"
    /\ last' = [op |-> "build", result |-> Ok(request), prev |-> request,
                calls |-> last.calls]
    /\ UNCHANGED <<api, input, request, handle, submitted, fds, closed, opened, lines>>
    /\ UNCHANGED <<strVars, chipVars, pairVars>>

\* the arguments that are tried in a state
SetterConfigs == IF phase = "builder" THEN BuilderConfigs(api) ELSE {}

BuilderNext ==
    \/ \E value \in BuilderConsumers : LineRequestBuilder_set_consumer(value)
    \/ \E bits \in BuilderFlags : LineRequestBuilder_set_flags(bits)
    \/ \E size \in BuilderSizes : LineRequestBuilder_set_event_buffer_size(size)
    \/ \E configs \in SetterConfigs : LineRequestBuilder_set_offsets(configs)
    \/ \E configs \in SetterConfigs, bits \in BuilderFlags, value \in BuilderConsumers :
            LineRequestBuilder_new(configs, bits, value)
    \/ \E offset \in SingleOffsets, bits \in BuilderFlags,
          default_value \in DefaultValues, value \in BuilderConsumers :
            OffsetRequest_new(offset, bits, default_value, value)
    \/ LineRequestBuilder_build

SpecBuilder == BuilderInit /\ [][BuilderNext]_vars

\* C22: after any chain of builder calls the record has num_lines <= 64 and
\* (v2, lib_uapi) num_attrs <= 10, and the set_offsets call that was made
\* last used only indices inside the 64-entry offset array and the 10-entry
\* attribute array.
C22_RecordWithinCapacity ==
    (api \in Apis /\ phase \in {"builder", "built"}) =>
        /\ num_lines(api, request) <= GPIO_V2_LINES_MAX
        /\ api # "v1" => request.config.num_attrs <= GPIO_V2_LINE_NUM_ATTRS_MAX
        /\ last.op \in {"set_offsets", "uapi_new"} =>
                /\ last.indices.lines \subseteq LineIdx
                /\ last.indices.slots \subseteq AttrIdx

\* C22 witness: a v2 set_offsets call was handed more configurations than
\* the record has lines and more attributes than it has slots.
C22_Witness ==
    /\ api = "v2" /\ phase = "builder" /\ last.op = "set_offsets"
    /\ Len(input) > GPIO_V2_LINES_MAX
    /\ slots_before(input, Len(input) + 1) > GPIO_V2_LINE_NUM_ATTRS_MAX
    /\ request.config.num_attrs = GPIO_V2_LINE_NUM_ATTRS_MAX

\* the LineHandle methods
HandleOps == {"get_values", "get_values_by_mask", "get_values_by_offsets", "set_values"}

\* C23: each call of get_values, get_values_by_mask, get_values_by_offsets
\* and set_values issues exactly one ioctl, on the handle's descriptor, with
\* the record the call built and the wrapper of its kind, whether the call
\* succeeds or fails and whether or not the mask is empty.
C23_OneIoctlPerCall ==
    (phase = "live" /\ last.op \in HandleOps) =>
        /\ Len(last.ioctls) = 1
        /\ last.ioctls[1].fd = handle.value.req_fd
        /\ last.ioctls[1].data = last.data
        /\ ioctl_kind_uapi(last.ioctls[1].wrapper) =
                (IF last.op = "set_values" THEN "SetValues" ELSE "GetValues")

\* C23 witness: a v2 set_values call none of whose offsets belongs to the
\* handle (empty mask) has failed.
C23_Witness ==
    /\ phase = "live" /\ api = "v2" /\ last.op = "set_values"
    /\ last.arg # <<>> /\ last.data.mask = {}
    /\ last.result.tag = "Err"

-----------------------------------------------------------------------------
(***************************************************************************)
(* SpecIter: a LineValueIter over a LineValue is advanced and cloned       *)
(* (gpio_cdev_async/src/line.rs).  last holds the iterator under           *)
(* observation (it), the result of its latest next (item), the items it    *)
(* has yielded, how often it has returned None, and the index its original *)
(* had when it was cloned.                                                 *)
(***************************************************************************)
\* impl Clone for LineValueIter, faulty variant: the index is copied, as
\* #[derive(Clone)] would
LineValueIter_clone_derived(it) == it

\* impl Clone for LineValueIter: Self { values: self.values, index: 0 }
LineValueIter_clone(it) == [values |-> it.values, index |-> 0]

\* LineValueIter::new: Self { values, index: 0 }
LineValueIter_new(lv) == [values |-> lv, index |-> 0]

\* how many times next is called on an exhausted iterator, and how many
\* clones are taken
MaxNones == 2
MaxClones == 1

\* the offset lists of the decoded values
IterOffsets ==
    {[k \in 1..n |-> OffsetAt(pattern, k)] : n \in 0..SmallLen, pattern \in {"ex", "dup"}}

\* LineValue: what get_values returned for a handle with the offsets
LineValues(a) ==
    IF a = "v1"
    THEN {[inner |-> [values |-> [i \in 0..(GPIOHANDLES_MAX - 1) |-> (i + flip) % 2]],
           offsets |-> offs] : offs \in IterOffsets, flip \in {0, 1}}
    ELSE {[inner |-> [mask |-> mask, bits |-> bits], offsets |-> offs] :
            offs \in IterOffsets,
            mask \in {{}, {0}, {1, 2}, 0..(WordBits - 1)},
            bits \in {{}, {0, 2}}}

IterInit ==
    /\ api \in {"v1", "v2"} /\ phase = "iter" /\ input = <<>> /\ request = None
    /\ handle = None /\ submitted = 0
    /\ \E lv \in LineValues(api) :
            last = [op |-> "values_iter", it |-> LineValueIter_new(lv), item |-> None,
                    yielded |-> <<>>, nones |-> 0, clones |-> 0, cloned_at |-> 0]
    /\ fds = {} /\ closed = <<>> /\ opened = <<>> /\ lines = <<>>
    /\ StrIdle /\ ChipIdle /\ PairIdle

\* LineValueIter::next(&mut self)
IterNext ==
    /\ phase = "iter" /\ last.nones < MaxNones
    /\ LET r == LineValueIter_next(api, last.it.values, last.it.index)
       IN  last' = [last EXCEPT
                        !.op = "next",
                        !.it = [values |-> last.it.values, index |-> r.index],
                        !.item = r.item,
                        !.yielded = IF r.item.tag = "Some"
                                    THEN Append(@, r.item.value) ELSE @,
                        !.nones = IF r.item.tag = "None" THEN @ + 1 ELSE @]
    /\ UNCHANGED <<api, phase, input, request, handle, submitted,
                   fds, closed, opened, lines>>
    /\ UNCHANGED <<strVars, chipVars, pairVars>>

\* LineValueIter::clone(&self): the clone is observed from here on
IterClone ==
    /\ phase = "iter" /\ last.clones < MaxClones
    /\ last' = [op |-> "clone", it |-> LineValueIter_clone(last.it), item |-> None,
                yielded |-> <<>>, nones |-> 0, clones |-> last.clones + 1,
                cloned_at |-> last.it.index]
    /\ UNCHANGED <<api, phase, input, request, handle, submitted,
                   fds, closed, opened, lines>>
    /\ UNCHANGED <<strVars, chipVars, pairVars>>

IterNext_or_Clone == IterNext \/ IterClone

SpecIter == IterInit /\ [][IterNext_or_Clone]_vars

\* C24: a LineValue iterator yields at most len(offsets) items; once next has
\* returned None every further next returns None, and the items yielded up
\* to then are the full sequence of a fresh iterator, also for an iterator
\* that is the clone of one that had already advanced.
C24_IterTerminatesCloneRestarts ==
    phase = "iter" =>
        /\ Len(last.yielded) <= Len(last.it.values.offsets)
        /\ last.it.index <= Len(last.it.values.offsets)
        /\ last.op = "clone" => last.it.index = 0
        /\ last.nones > 0 =>
                /\ last.item = None
                /\ last.yielded = values_iter(api, last.it.values)

\* C24 witness: the clone of an iterator that had advanced has yielded two
\* items and then returned None twice.
C24_Witness ==
    /\ phase = "iter" /\ last.clones > 0 /\ last.cloned_at > 0
    /\ Len(last.yielded) >= 2 /\ last.nones = MaxNones

\* C25: the offset list of a live gpio_cdev_async LineHandle is the offsets()
\* of the request it was made from, and no get_values, get_values_by_mask,
\* get_values_by_offsets or set_values call, successful or not, changes it.
C25_HandleOffsetsFixed ==
    /\ []((phase = "live" /\ api \in {"v1", "v2"}) =>
                handle.value.offsets = offsets(api, request))
    /\ [][(phase = "live" /\ phase' = "live" /\ api \in {"v1", "v2"}) =>
                handle'.value.offsets = handle.value.offsets]_vars

\* C25 witness: a set_values call on a handle with several lines has failed.
C25_Witness ==
    /\ phase = "live" /\ api \in {"v1", "v2"}
    /\ last.op = "set_values" /\ last.result.tag = "Err"
    /\ Len(handle.value.offsets) > 1
    /\ handle.value.offsets = offsets(api, request)

\* C26 (as claimed): a set_values call changes only the lines it names: every
\* line of the handle whose offset is not among the named offsets has the
\* value it had before the call, in the v1 and in the v2 variant.
C26_SetChangesOnlyNamed ==
    (phase = "live" /\ api \in {"v1", "v2"} /\ last.op = "set_values") =>
        \A i \in 1..Len(lines) :
            ~contains(last.arg, handle.value.offsets[i]) => lines[i] = last.lines[i]

\* what C27 says default_value() reports for a request made with default v
ClaimedDefault(a, v) == IF a = "v1" THEN Some(v) ELSE Some(IF v # 0 THEN 1 ELSE 0)

\* C27 (as claimed): OffsetRequest::new(o, flags, v, consumer) is a one-line
\* request whose offset() is o and whose default_value() is Some(1) for
\* v != 0 and Some(0) for v = 0 in v2, and Some(v) in v1.
C27_OffsetRequestReportsDefault ==
    (phase = "built" /\ last.op = "OffsetRequest_new") =>
        /\ num_lines(api, request) = 1
        /\ OffsetRequest_offset(api, request) = last.arg.offset
        /\ OffsetRequest_default_value(api, request) =
                ClaimedDefault(api, last.arg.default_value)

\* C28 (as claimed): lib_uapi set_bites(b) submits the record (mask =
\* handle.mask, bits = b restricted to the mask), and a get_bites that
\* follows a successful set_bites(b) returns b restricted to the mask.
C28_SetBitesSubmitsBits ==
    (phase = "live" /\ api = "uapi") =>
        /\ last.op = "set_bites" =>
                /\ last.data.mask = handle.value.mask
                /\ last.data.bits = last.arg \cap handle.value.mask
        /\ (last.op = "get_bites" /\ last.result.tag = "Ok" /\ last.after.tag = "Some") =>
                last.result.value = last.after.value \cap handle.value.mask

\* the orders in which the items of a list can be handed over: every
\* permutation of a short list; of a long one the rotation, the exchange of
\* the first two and the reversal
Rearrangements(items) ==
    LET n == Len(items)
    IN  IF n <= SmallLen + 1
        THEN {[k \in 1..n |-> items[p[k]]] :
                p \in {f \in [1..n -> 1..n] : \A i, j \in 1..n : f[i] = f[j] => i = j}}
        ELSE {[k \in 1..n |-> items[(k % n) + 1]],
              [k \in 1..n |-> items[IF k = 1 THEN 2 ELSE IF k = 2 THEN 1 ELSE k]],
              [k \in 1..n |-> items[n + 1 - k]]}

\* C29: the (mask, bits) record v2 set_values submits is the same for every
\* order of the same items; bits is a subset of mask; mask has only index
\* bits below len(offsets); the line of an offset has its mask bit iff some
\* item names the offset and its value bit iff some item naming it has a
\* non-zero value.
C29_RecordIndependentOfOrder ==
    (phase = "live" /\ api = "v2" /\ last.op = "set_values") =>
        LET offs == handle.value.offsets
            items == last.items
            data == last.data
        IN  /\ \A p \in Rearrangements(items) : set_values_v2(offs, p) = data
            /\ data.bits \subseteq data.mask
            /\ data.mask \subseteq 0..(Len(offs) - 1)
            /\ \A i \in 0..(Len(offs) - 1) :
                    /\ i \in data.mask <=>
                            \E k \in 1..Len(items) : items[k].offset = offs[i + 1]
                    /\ i \in data.bits <=>
                            \E k \in 1..Len(items) : /\ items[k].offset = offs[i + 1]
                                                     /\ items[k].value # 0

\* C29 witness: set_values was given four items, two of them naming the same
\* line with different values and one naming a foreign offset, and the line
\* named twice has its value bit set.
C29_Witness ==
    /\ phase = "live" /\ api = "v2" /\ last.op = "set_values"
    /\ Len(last.items) = 4
    /\ last.items[1].offset = last.items[4].offset
    /\ last.items[1].value # last.items[4].value
    /\ ~contains(handle.value.offsets, last.items[2].offset)
    /\ Len(handle.value.offsets) - 1 \in last.data.bits
    /\ 0 \in last.data.mask

\* the line configuration of a builder: the arrays and counts set_offsets writes
LineConfiguration(a, req) ==
    IF a = "v1" THEN <<req.lineoffsets, req.default_values, req.lines>>
    ELSE <<req.offsets, req.num_lines, req.config.attrs, req.config.num_attrs>>

\* the raw consumer field and the event buffer size of a builder
ConsumerField(a, req) == IF a = "v1" THEN req.consumer_label ELSE req.consumer
EventBufferSize(a, req) == IF a = "v1" THEN 0 ELSE req.event_buffer_size

\* C30: a set_offsets call leaves consumer, flags and event_buffer_size as
\* they were, and the visible configuration after it (num_lines, offsets(),
\* and num_attrs and attrs() in v2, default_values() in v1) is that of the
\* same call on a new builder, whatever calls came before; set_consumer,
\* set_flags and set_event_buffer_size change their own field only; build
\* returns Ok of the record as it was set.
C30_SettersIndependentLastWins ==
    (api \in {"v1", "v2"} /\ phase \in {"builder", "built"}) =>
        LET prev == last.prev
            fresh == set_offsets(api, NewBuilder(api), last.arg)
        IN  /\ last.op = "set_offsets" =>
                    /\ num_lines(api, request) = num_lines(api, fresh)
                    /\ offsets(api, request) = offsets(api, fresh)
                    /\ IF api = "v2"
                       THEN /\ request.config.num_attrs = fresh.config.num_attrs
                            /\ LineRequest_attrs(request) = LineRequest_attrs(fresh)
                       ELSE LineRequest_default_values(request) =
                                LineRequest_default_values(fresh)
                    /\ ConsumerField(api, request) = ConsumerField(api, prev)
                    /\ LineRequest_flags(api, request) = LineRequest_flags(api, prev)
                    /\ EventBufferSize(api, request) = EventBufferSize(api, prev)
            /\ last.op = "set_consumer" =>
                    /\ LineConfiguration(api, request) = LineConfiguration(api, prev)
                    /\ LineRequest_flags(api, request) = LineRequest_flags(api, prev)
                    /\ EventBufferSize(api, request) = EventBufferSize(api, prev)
                    /\ ConsumerField(api, request) = CString_from(last.arg)
            /\ last.op = "set_flags" =>
                    /\ LineConfiguration(api, request) = LineConfiguration(api, prev)
                    /\ ConsumerField(api, request) = ConsumerField(api, prev)
                    /\ EventBufferSize(api, request) = EventBufferSize(api, prev)
                    /\ LineRequest_flags(api, request) = last.arg
            /\ last.op = "set_event_buffer_size" =>
                    /\ LineConfiguration(api, request) = LineConfiguration(api, prev)
                    /\ ConsumerField(api, request) = ConsumerField(api, prev)
                    /\ LineRequest_flags(api, request) = LineRequest_flags(api, prev)
                    /\ EventBufferSize(api, request) = last.arg
            /\ last.op = "build" => (last.result = Ok(prev) /\ request = prev)

\* C30 witness: a v2 builder with a consumer got a second set_offsets call
\* with fewer lines and fewer attributes than the first; a slot of the first
\* call is still in the array behind the visible attributes.
C30_Witness ==
    /\ api = "v2" /\ phase = "builder" /\ last.op = "set_offsets"
    /\ last.prev.num_lines > request.num_lines
    /\ last.prev.config.num_attrs > request.config.num_attrs
    /\ request.config.num_attrs > 0
    /\ request.config.attrs[request.config.num_attrs] # ZeroConfigAttribute
    /\ request.consumer[1] # NUL

=============================================================================
